---- MODULE Spec2Model ----
(***************************************************************************)
(* A model of the NBADASH data pipeline: the JSON-API source adapters and  *)
(* the games snapshot loader (scripts/fetch_games.py, fetch_oddsapi.py,    *)
(* fetch_prizepicks.py), the Selenium scraper (scripts/fetch_fanduel.py),  *)
(* the refresh cycle of app.py and the edge computation of                 *)
(* scripts/apply_predictions.py.                                           *)
(*                                                                         *)
(* Numbers with one decimal (lines, projections) are kept in tenths,       *)
(* numbers with two decimals (edge_pct, expected values) in hundredths.    *)
(***************************************************************************)
EXTENDS Integers, Sequences, FiniteSets, TLC

VARIABLES
    gamesFile,   \* data/games_today.json
    oddsFile,    \* data/odds_snapshot.json
    op,          \* the adapter entry point called last
    resp,        \* what the external source answered to that call
    ret,         \* what the call handed back: [raised, df]
    fetchCalls,  \* fetch_games_today calls made by the last load_games_snapshot
    fetched,     \* the data frame the last of those calls returned
    prevGames,   \* games_today.json as it was before the last call
    fd,          \* the last fetch_fanduel_props call: its inputs and outcome
    app,         \* the last run of the app.py script
    mdl,         \* the last run_model_predictions call
    fb,          \* the last call of a feature builder
    pm,          \* the last predict_props call and the one before it
    modelFiles,  \* the stats that have a <stat>_model.joblib in models/
    ps,          \* the last get_player_stats_summary call
    cacheFile,   \* data/player_logs/<player>_<season>.json of the known player
    stCache,     \* the st.cache_data store of the three cached fetches of app.py
    uiStep,      \* what the Streamlit session did last
    parse,       \* the last _parse_props_from_html call
    rf           \* the last build_recent_features call

adapterVars == <<gamesFile, oddsFile, op, resp, ret, fetchCalls, fetched, prevGames>>
featureVars == <<fb, pm, modelFiles>>
statsVars == <<ps, cacheFile>>
sessionVars == <<stCache, uiStep>>
helperVars == <<parse, rf>>
vars == <<adapterVars, fd, app, mdl, featureVars, statsVars, sessionVars, helperVars>>

-----------------------------------------------------------------------------
(* Bounds of the model *)

\* the most items (games, outcomes, projections) one payload carries
MaxItems == 2

\* the largest max_attempts fetch_fanduel_props is called with
MaxAttempts == 2

\* the most prop rows handed to one run_model_predictions call
MaxProps == 2

\* the longest game log handed to a feature builder
MaxLogLen == 22

\* the longest game log handed to predict_props
MaxTrainLen == 8

\* the most pieces the dump of one XHR body splits into
MaxChunks == 2

\* the most records the two heuristics make of one page
MaxRecords == 3

\* the most games of a log handed to build_recent_features
MaxGames == 12

-----------------------------------------------------------------------------
(* Data frames and files *)

\* pd.DataFrame(): no columns, no rows
EmptyDF == [cols |-> "none", rows |-> <<>>]

\* DataFrame.empty: no rows or no columns
IsEmpty(df) == df.rows = <<>> \/ df.cols = "none"

\* a number, the float NaN, or the float infinity
Num(v) == [v |-> v, t |-> "num"]
NaN == [v |-> 0, t |-> "nan"]
Inf == [v |-> 0, t |-> "inf"]

\* a path at which no file exists
Missing ==
    [exists |-> FALSE, size |-> 0, json |-> "none", fmt |-> "none", recs |-> <<>>, count |-> -1]

\* the smallest size load_games_snapshot accepts as a snapshot
MinSnapshotBytes == 10

\* DataFrame.to_json(path, orient="records", indent=2) of a frame with rows:
\* a JSON array holding one object per row (each far longer than ten bytes)
ToJsonFile(df) ==
    [exists |-> TRUE, size |-> 2 + 100 * Len(df.rows), json |-> "records",
     fmt |-> df.cols, recs |-> df.rows, count |-> -1]

\* Files found on disk that no fetch of this program wrote: cut short,
\* overwritten or hand-edited.  json is how json.load sees the text:
\* "invalid" does not parse, "emptylist" parses to [], "scalar" parses to a
\* value pd.DataFrame refuses.  count is the "count" member of an envelope,
\* -1 in a file that has none.
ForeignFiles ==
    { [exists |-> TRUE, size |-> 0,  json |-> "invalid",   fmt |-> "none", recs |-> <<>>, count |-> -1],
      [exists |-> TRUE, size |-> 2,  json |-> "emptylist", fmt |-> "none", recs |-> <<>>, count |-> -1],
      [exists |-> TRUE, size |-> 9,  json |-> "invalid",   fmt |-> "none", recs |-> <<>>, count |-> -1],
      [exists |-> TRUE, size |-> 10, json |-> "invalid",   fmt |-> "none", recs |-> <<>>, count |-> -1],
      [exists |-> TRUE, size |-> 12, json |-> "emptylist", fmt |-> "none", recs |-> <<>>, count |-> -1],
      [exists |-> TRUE, size |-> 11, json |-> "scalar",    fmt |-> "none", recs |-> <<>>, count |-> -1] }

-----------------------------------------------------------------------------
(* Responses of the external JSON APIs *)

\* sequences over S of length 0..n
SeqsUpTo(S, n) == UNION { [1..k -> S] : k \in 0..n }

\* requests.get raised (timeout, connection refused)
ConnErr == [net |-> "err", status |-> 0, shape |-> "ok", items |-> <<>>]

\* a non-success HTTP status
Non200 == [net |-> "ok", status |-> 500, shape |-> "ok", items |-> <<>>]

\* status 200 with a body that is not the expected JSON container
BadShape == [net |-> "ok", status |-> 200, shape |-> "bad", items |-> <<>>]

\* status 200 with the expected container holding these items
OkResp(items) == [net |-> "ok", status |-> 200, shape |-> "ok", items |-> items]

ResponsesOver(kinds) ==
    {ConnErr, Non200, BadShape} \cup { OkResp(s) : s \in SeqsUpTo(kinds, MaxItems) }

\* a game object is complete ("good") or lacks a key the loop indexes ("bad")
GameItems == {"good", "bad"}

\* an outcome is well formed ("good"), has no "name" key ("noName"), has a
\* null name so that .strip() raises inside the inner try ("badOutcome"), or
\* sits in a game/bookmaker/market that is not an object so that .get raises
\* outside the inner try ("badGame")
OddsItems == {"good", "noName", "badOutcome", "badGame"}

\* a projection is an NBA one ("good"), names a player that "included" does
\* not hold and has no "stat_type" key ("noPlayerStat"), lacks "attributes"
\* so that the inner try skips it ("badProj"), or belongs to another league
\* ("otherLeague")
PrizeItems == {"good", "noPlayerStat", "badProj", "otherLeague"}

\* the rows built from the items of kind "good", each keeping its position in
\* the payload as its identity
RECURSIVE GoodRows(_, _)
GoodRows(items, i) ==
    IF i > Len(items) THEN <<>>
    ELSE (IF items[i] = "good" THEN <<[id |-> i]>> ELSE <<>>) \o GoodRows(items, i + 1)

-----------------------------------------------------------------------------
(* scripts/fetch_games.py *)

\* the try block of fetch_games_today: exc is TRUE when a statement raised
FetchGamesBody(r, file) ==
    IF r.net = "err" THEN [exc |-> TRUE, df |-> EmptyDF, file |-> file]
    ELSE IF r.status # 200 THEN [exc |-> FALSE, df |-> EmptyDF, file |-> file]
    ELSE IF r.shape = "bad" THEN [exc |-> TRUE, df |-> EmptyDF, file |-> file]
    ELSE IF r.items = <<>> THEN [exc |-> FALSE, df |-> EmptyDF, file |-> file]
    ELSE IF \E i \in 1..Len(r.items) : r.items[i] # "good"
         THEN [exc |-> TRUE, df |-> EmptyDF, file |-> file]
    ELSE LET df == [cols |-> "games", rows |-> GoodRows(r.items, 1)]
         IN  [exc |-> FALSE, df |-> df, file |-> ToJsonFile(df)]

FetchGamesTodayNoCatch(r, file) ==
    LET b == FetchGamesBody(r, file)
    IN  [raised |-> b.exc, df |-> b.df, file |-> b.file]

\* fetch_games_today: the try block, with "except Exception: return pd.DataFrame()"
FetchGamesToday(r, file) ==
    LET b == FetchGamesBody(r, file)
    IN  [raised |-> FALSE, df |-> IF b.exc THEN EmptyDF ELSE b.df, file |-> b.file]

\* "return fetch_games_today()" outside the try block of load_games_snapshot
\* (the guard of line 60, the handler of line 70)
LoadViaFetch(r, file) ==
    LET f == FetchGamesToday(r, file)
    IN  [raised |-> f.raised, df |-> f.df, file |-> f.file, calls |-> 1, fetched |-> f.df]

LoadTryNoEmptyCheck(r, file) ==
    IF file.json \in {"invalid", "scalar"} THEN LoadViaFetch(r, file)
    ELSE [raised |-> FALSE,
          df |-> [cols |-> IF file.recs = <<>> THEN "none" ELSE file.fmt, rows |-> file.recs],
          file |-> file, calls |-> 0, fetched |-> EmptyDF]

\* the try block of load_games_snapshot and its handler: a fetch made inside
\* the try block that raised would be followed by the handler's own fetch
LoadTry(r, file) ==
    IF file.json \in {"invalid", "scalar"} THEN LoadViaFetch(r, file)
    ELSE LET df == [cols |-> IF file.recs = <<>> THEN "none" ELSE file.fmt, rows |-> file.recs]
         IN  IF IsEmpty(df)
             THEN LET f == FetchGamesToday(r, file)
                  IN  IF f.raised
                      THEN LET g == FetchGamesToday(r, f.file)
                           IN  [raised |-> g.raised, df |-> g.df, file |-> g.file,
                                calls |-> 2, fetched |-> g.df]
                      ELSE [raised |-> FALSE, df |-> f.df, file |-> f.file,
                            calls |-> 1, fetched |-> f.df]
             ELSE [raised |-> FALSE, df |-> df, file |-> file, calls |-> 0, fetched |-> EmptyDF]

LoadGamesSnapshotNoFetch(r, file) ==
    IF ~file.exists \/ file.size < MinSnapshotBytes
    THEN [raised |-> FALSE, df |-> EmptyDF, file |-> file, calls |-> 0, fetched |-> EmptyDF]
    ELSE LoadTry(r, file)

\* load_games_snapshot
LoadGamesSnapshot(r, file) ==
    IF ~file.exists \/ file.size < MinSnapshotBytes
    THEN LoadViaFetch(r, file)
    ELSE LoadTry(r, file)

-----------------------------------------------------------------------------
(* scripts/fetch_oddsapi.py and scripts/fetch_prizepicks.py *)

\* what the outcome loop of fetch_oddsapi_data appends for outcome i of a
\* player_points market: outcome.get("name", "") is the empty string when the
\* key is absent; the point is kept as the payload gives it
OddsapiRow(kind, i) ==
    CASE kind = "good" ->
            <<[id |-> i, player |-> "A", prop_type |-> "Points", line |-> Num(255)]>>
      [] kind = "noName" ->
            <<[id |-> i, player |-> "", prop_type |-> "Points", line |-> Num(255)]>>
      [] OTHER -> <<>>

RECURSIVE OddsapiRows(_, _)
OddsapiRows(items, i) ==
    IF i > Len(items) THEN <<>>
    ELSE OddsapiRow(items[i], i) \o OddsapiRows(items, i + 1)

\* what the projection loop of fetch_prizepicks_data appends for projection
\* i: the player defaults to "Unknown Player", the stat type to the empty
\* string
PrizepicksRow(kind, i) ==
    CASE kind = "good" ->
            <<[id |-> i, player |-> "A", prop_type |-> "Points", line |-> Num(255)]>>
      [] kind = "noPlayerStat" ->
            <<[id |-> i, player |-> "Unknown Player", prop_type |-> "",
               line |-> Num(255)]>>
      [] OTHER -> <<>>

RECURSIVE PrizepicksRows(_, _)
PrizepicksRows(items, i) ==
    IF i > Len(items) THEN <<>>
    ELSE PrizepicksRow(items[i], i) \o PrizepicksRows(items, i + 1)

FetchOddsapiBodyWriteFirst(r, file) ==
    IF r.net = "err" THEN [exc |-> TRUE, df |-> EmptyDF, file |-> file]
    ELSE IF r.status # 200 THEN [exc |-> FALSE, df |-> EmptyDF, file |-> file]
    ELSE IF r.shape = "bad" THEN [exc |-> TRUE, df |-> EmptyDF, file |-> file]
    ELSE IF \E i \in 1..Len(r.items) : r.items[i] = "badGame"
         THEN [exc |-> TRUE, df |-> EmptyDF, file |-> file]
    ELSE LET rows == OddsapiRows(r.items, 1)
             df == [cols |-> "oddsapi", rows |-> rows]
         IN  [exc |-> FALSE, df |-> IF rows = <<>> THEN EmptyDF ELSE df,
              file |-> ToJsonFile(df)]

\* the try block of fetch_oddsapi_data: the inner try skips a malformed
\* outcome, anything else that raises leaves the block
FetchOddsapiBody(r, file) ==
    IF r.net = "err" THEN [exc |-> TRUE, df |-> EmptyDF, file |-> file]
    ELSE IF r.status # 200 THEN [exc |-> FALSE, df |-> EmptyDF, file |-> file]
    ELSE IF r.shape = "bad" THEN [exc |-> TRUE, df |-> EmptyDF, file |-> file]
    ELSE IF \E i \in 1..Len(r.items) : r.items[i] = "badGame"
         THEN [exc |-> TRUE, df |-> EmptyDF, file |-> file]
    ELSE LET rows == OddsapiRows(r.items, 1)
             df == [cols |-> "oddsapi", rows |-> rows]
         IN  IF rows = <<>>
             THEN [exc |-> FALSE, df |-> EmptyDF, file |-> file]
             ELSE [exc |-> FALSE, df |-> df, file |-> ToJsonFile(df)]

FetchOddsapiDataNoCatch(r, file) ==
    LET b == FetchOddsapiBody(r, file)
    IN  [raised |-> b.exc, df |-> b.df, file |-> b.file]

\* fetch_oddsapi_data
FetchOddsapiData(r, file) ==
    LET b == FetchOddsapiBody(r, file)
    IN  [raised |-> FALSE, df |-> IF b.exc THEN EmptyDF ELSE b.df, file |-> b.file]

\* the try block of fetch_prizepicks_data: a projection without "attributes"
\* is skipped by the inner try, one of another league is not appended
FetchPrizepicksBody(r, file) ==
    IF r.net = "err" THEN [exc |-> TRUE, df |-> EmptyDF, file |-> file]
    ELSE IF r.status # 200 THEN [exc |-> FALSE, df |-> EmptyDF, file |-> file]
    ELSE IF r.shape = "bad" THEN [exc |-> TRUE, df |-> EmptyDF, file |-> file]
    ELSE LET rows == PrizepicksRows(r.items, 1)
             df == [cols |-> "prizepicks", rows |-> rows]
         IN  IF rows = <<>>
             THEN [exc |-> FALSE, df |-> EmptyDF, file |-> file]
             ELSE [exc |-> FALSE, df |-> df, file |-> ToJsonFile(df)]

\* fetch_prizepicks_data
FetchPrizepicksData(r, file) ==
    LET b == FetchPrizepicksBody(r, file)
    IN  [raised |-> FALSE, df |-> IF b.exc THEN EmptyDF ELSE b.df, file |-> b.file]

-----------------------------------------------------------------------------
(* scripts/fetch_fanduel.py *)

\* the landing pages of FANDUEL_NBA_PROPS_URLS
NumUrls == 3

\* the default of max_attempts
DefaultMaxAttempts == 2

\* Whether the name datetime is bound in the module: the import block binds
\* os, json, time, logging, typing, pathlib, pandas, bs4, selenium and
\* webdriver_manager names, and no datetime.
DatetimeImported == FALSE

\* what one page load does: driver.get or the wait raises, the page parses to
\* no record, or it parses to records
PageOutcomes == {"raise", "empty", "rows"}

\* the records _parse_props_from_html made of the page of url u: the line is
\* the text token found on the page
ParsedRows(u) ==
    <<[player |-> "A", prop_type |-> "PTS", line |-> [v |-> 255, t |-> "text"], url |-> u]>>

RECURSIVE ScrapeLoopNoReset(_, _, _, _, _)
ScrapeLoopNoReset(u, a, m, pages, acc) ==
    IF u > NumUrls THEN acc
    ELSE IF a >= m THEN ScrapeLoopNoReset(u + 1, a, m, pages, acc)
    ELSE IF pages[u][a + 1] = "rows"
         THEN [loads |-> Append(acc.loads, u), sleeps |-> acc.sleeps,
               scraped |-> acc.scraped \o ParsedRows(u)]
         ELSE ScrapeLoopNoReset(u, a + 1, m, pages,
                                [loads |-> Append(acc.loads, u), sleeps |-> acc.sleeps + 1,
                                 scraped |-> acc.scraped])

RECURSIVE ScrapeLoopNoOuterBreak(_, _, _, _, _)
ScrapeLoopNoOuterBreak(u, a, m, pages, acc) ==
    IF u > NumUrls THEN acc
    ELSE IF a >= m THEN ScrapeLoopNoOuterBreak(u + 1, 0, m, pages, acc)
    ELSE IF pages[u][a + 1] = "rows"
         THEN ScrapeLoopNoOuterBreak(u + 1, 0, m, pages,
                                     [loads |-> Append(acc.loads, u), sleeps |-> acc.sleeps,
                                      scraped |-> acc.scraped \o ParsedRows(u)])
         ELSE ScrapeLoopNoOuterBreak(u, a + 1, m, pages,
                                     [loads |-> Append(acc.loads, u),
                                      sleeps |-> acc.sleeps + 1,
                                      scraped |-> acc.scraped])

\* The scraping loop: for each url, up to m attempts; an attempt that raises
\* or parses nothing counts and is followed by a sleep; records end both
\* loops.  pages[u][a] is the outcome of attempt a on url u, acc collects the
\* urls loaded, the sleeps made and the records scraped.
RECURSIVE ScrapeLoop(_, _, _, _, _)
ScrapeLoop(u, a, m, pages, acc) ==
    IF u > NumUrls THEN acc
    ELSE IF a >= m THEN ScrapeLoop(u + 1, 0, m, pages, acc)
    ELSE IF pages[u][a + 1] = "rows"
         THEN [loads |-> Append(acc.loads, u), sleeps |-> acc.sleeps,
               scraped |-> acc.scraped \o ParsedRows(u)]
         ELSE ScrapeLoop(u, a + 1, m, pages,
                         [loads |-> Append(acc.loads, u), sleeps |-> acc.sleeps + 1,
                          scraped |-> acc.scraped])

\* the snapshot envelope json.dump writes: count and records of the frame
EnvelopeFile(df) ==
    [exists |-> TRUE, size |-> 100 + 100 * Len(df.rows), json |-> "envelope",
     fmt |-> "fanduel", recs |-> df.rows, count |-> Len(df.rows)]

FetchFanduelPropsQuitOnReturn(in, file) ==
    IF ~in.driverOK
    THEN [raised |-> TRUE, df |-> EmptyDF, file |-> file,
          loads |-> <<>>, sleeps |-> 0, quits |-> 0, scraped |-> <<>>,
          escaped |-> "WebDriverException"]
    ELSE LET acc == ScrapeLoop(1, 0, in.m, in.pages,
                               [loads |-> <<>>, sleeps |-> 0, scraped |-> <<>>])
             df == IF acc.scraped = <<>> THEN EmptyDF
                   ELSE [cols |-> "fanduel", rows |-> acc.scraped]
         IN  IF DatetimeImported
             THEN [raised |-> ~in.quitOK, df |-> IF in.quitOK THEN df ELSE EmptyDF,
                   file |-> EnvelopeFile(df),
                   loads |-> acc.loads, sleeps |-> acc.sleeps, quits |-> 1,
                   scraped |-> acc.scraped,
                   escaped |-> IF in.quitOK THEN "none" ELSE "quit"]
             ELSE [raised |-> TRUE, df |-> EmptyDF, file |-> file,
                   loads |-> acc.loads, sleeps |-> acc.sleeps, quits |-> 0,
                   scraped |-> acc.scraped, escaped |-> "NameError"]

\* fetch_fanduel_props(max_attempts = in.m): in.driverOK says whether
\* _init_driver returned a driver, in.quitOK whether driver.quit returns.
\* Building the envelope evaluates datetime.utcnow(); the finally clause
\* quits the driver if there is one and swallows a failure of quit.  scraped
\* is the list of records the loop collected for the frame, escaped the
\* exception that leaves the call ("none" when it returns).
FetchFanduelProps(in, file) ==
    IF ~in.driverOK
    THEN [raised |-> TRUE, df |-> EmptyDF, file |-> file,
          loads |-> <<>>, sleeps |-> 0, quits |-> 0, scraped |-> <<>>,
          escaped |-> "WebDriverException"]
    ELSE LET acc == ScrapeLoop(1, 0, in.m, in.pages,
                               [loads |-> <<>>, sleeps |-> 0, scraped |-> <<>>])
             df == IF acc.scraped = <<>> THEN EmptyDF
                   ELSE [cols |-> "fanduel", rows |-> acc.scraped]
         IN  IF DatetimeImported
             THEN [raised |-> FALSE, df |-> df, file |-> EnvelopeFile(df),
                   loads |-> acc.loads, sleeps |-> acc.sleeps, quits |-> 1,
                   scraped |-> acc.scraped, escaped |-> "none"]
             ELSE [raised |-> TRUE, df |-> EmptyDF, file |-> file,
                   loads |-> acc.loads, sleeps |-> acc.sleeps, quits |-> 1,
                   scraped |-> acc.scraped, escaped |-> "NameError"]

\* Whether attempt a on url u comes after an attempt that parsed records: the
\* loops have ended by then and the page is never loaded.
AfterRecords(pages, m, u, a) ==
    \E v \in 1..u : \E b \in 1..m :
        /\ (v < u \/ (v = u /\ b < a))
        /\ pages[v][b] = "rows"

\* the page outcomes of a call with m attempts per url; an attempt the loops
\* never make has no outcome of its own and is written "raise"
PagesFor(m) ==
    { pages \in [1..NumUrls -> [1..m -> PageOutcomes]] :
        \A u \in 1..NumUrls : \A a \in 1..m :
            AfterRecords(pages, m, u, a) => pages[u][a] = "raise" }

CallFetchFanduelProps ==
    \E driverOK \in BOOLEAN, quitOK \in BOOLEAN, m \in 1..MaxAttempts :
    \E pages \in PagesFor(m) :
        LET in == [driverOK |-> driverOK, quitOK |-> quitOK, m |-> m, pages |-> pages]
            f == FetchFanduelProps(in, oddsFile)
        IN  /\ ~fd.called
            /\ (~driverOK => quitOK /\ \A u \in 1..NumUrls : \A a \in 1..m :
                                            pages[u][a] = "raise")
            /\ fd' = [called |-> TRUE, in |-> in, raised |-> f.raised, df |-> f.df,
                      loads |-> f.loads, sleeps |-> f.sleeps, quits |-> f.quits,
                      scraped |-> f.scraped, prevOdds |-> oddsFile,
                      escaped |-> f.escaped]
            /\ oddsFile' = f.file
            /\ UNCHANGED <<gamesFile, op, resp, ret, fetchCalls, fetched, prevGames, app, mdl, featureVars, statsVars, sessionVars, helperVars>>

-----------------------------------------------------------------------------
(* scripts/apply_predictions.py *)

\* the players of the model: the log source knows both, and has game logs
\* for those the input names
Players == {"A", "C"}

\* the prop_type labels of the model
PropTypes == {"PTS", "AST"}

\* the n_games default of build_recent_features
NGames == 10

\* the lines of the model, in tenths: 0, 16.0, 25.5, and a missing line
LineValues == {Num(0), Num(160), Num(255), NaN}

\* what the fitted pipeline may predict, rounded to one decimal, in tenths
ProjValues == {161, 270}

\* the prop rows handed to run_model_predictions
PropRows == [player : Players, prop_type : PropTypes, line : LineValues]

\* the game log get_player_stats_summary returns for a player who has one,
\* latest game first as the log API delivers it
SampleLog ==
    << [GAME_DATE |-> 2, PTS |-> 30, REB |-> 8, AST |-> 6, FG3M |-> 3],
       [GAME_DATE |-> 1, PTS |-> 24, REB |-> 5, AST |-> 9, FG3M |-> 1] >>

StatColumnByFullName(prop_type) ==
    CASE prop_type \in {"PTS", "Points"} -> "PTS"
      [] prop_type \in {"REB", "Rebounds"} -> "REB"
      [] prop_type \in {"AST", "Assists"} -> "AST"
      [] prop_type = "PRA" -> "PRA"
      [] prop_type = "3PM" -> "FG3M"
      [] OTHER -> ""

\* col_map.get(prop_type), with the PRA column computed; "" is None
StatColumn(prop_type) ==
    CASE prop_type = "PTS" -> "PTS"
      [] prop_type = "REB" -> "REB"
      [] prop_type = "AST" -> "AST"
      [] prop_type = "PRA" -> "PRA"
      [] prop_type = "3PM" -> "FG3M"
      [] OTHER -> ""

\* the value of a log row in a stat column
StatOf(g, col) ==
    CASE col = "PTS" -> g.PTS
      [] col = "REB" -> g.REB
      [] col = "AST" -> g.AST
      [] col = "FG3M" -> g.FG3M
      [] OTHER -> g.PTS + g.REB + g.AST

\* GAME_DATE d of a log row of the model is the d-th day of the season
\* 2024-25 counted from the first of October; this is the text the log API
\* delivers for it, "MMM DD, YYYY", in its parts.
DateText(d) ==
    IF d <= 31 THEN [mon |-> "OCT", dd |-> d, yyyy |-> 2024]
    ELSE IF d <= 61 THEN [mon |-> "NOV", dd |-> d - 31, yyyy |-> 2024]
    ELSE IF d <= 92 THEN [mon |-> "DEC", dd |-> d - 61, yyyy |-> 2024]
    ELSE IF d <= 123 THEN [mon |-> "JAN", dd |-> d - 92, yyyy |-> 2025]
    ELSE IF d <= 151 THEN [mon |-> "FEB", dd |-> d - 123, yyyy |-> 2025]
    ELSE IF d <= 182 THEN [mon |-> "MAR", dd |-> d - 151, yyyy |-> 2025]
    ELSE IF d <= 212 THEN [mon |-> "APR", dd |-> d - 182, yyyy |-> 2025]
    ELSE [mon |-> "MAY", dd |-> d - 212, yyyy |-> 2025]

\* the place of a date text in the order of texts: character by character,
\* so by the month's letters (APR, DEC, FEB, JAN, MAR, MAY, NOV, OCT), then
\* the two digits of the day, then the year
TextRank(x) ==
    (CASE x.mon = "APR" -> 1 [] x.mon = "DEC" -> 2 [] x.mon = "FEB" -> 3
       [] x.mon = "JAN" -> 4 [] x.mon = "MAR" -> 5 [] x.mon = "MAY" -> 6
       [] x.mon = "NOV" -> 7 [] OTHER -> 8) * 1000000 + x.dd * 10000 + x.yyyy

\* a >= b of the GAME_DATE texts of two days
TextGeq(a, b) == TextRank(DateText(a)) >= TextRank(DateText(b))

\* sort_values(by="GAME_DATE", ascending=False) of the text column: a stable
\* insertion sort
RECURSIVE InsertByDateDesc(_, _)
InsertByDateDesc(sorted, g) ==
    IF sorted = <<>> THEN <<g>>
    ELSE IF TextGeq(Head(sorted).GAME_DATE, g.GAME_DATE)
         THEN <<Head(sorted)>> \o InsertByDateDesc(Tail(sorted), g)
         ELSE <<g>> \o sorted

RECURSIVE SortByDateDesc(_)
SortByDateDesc(lg) ==
    IF lg = <<>> THEN <<>>
    ELSE InsertByDateDesc(SortByDateDesc(SubSeq(lg, 1, Len(lg) - 1)), lg[Len(lg)])

RECURSIVE SumOf(_, _)
SumOf(lg, col) == IF lg = <<>> THEN 0 ELSE StatOf(Head(lg), col) + SumOf(Tail(lg), col)

\* build_recent_features: None (ok = FALSE) without logs or without a stat
\* column, else the feature row.  recent_mean is kept as recent_sum over
\* games_used; recent_std feeds only the fitted pipeline and is left out.
BuildRecentFeatures(player, prop_type, logs) ==
    LET none == [ok |-> FALSE, player |-> player, prop_type |-> prop_type,
                 recent_sum |-> 0, last_game |-> 0, games_used |-> 0]
        col == StatColumn(prop_type)
    IN  IF logs[player] = <<>> \/ col = "" THEN none
        ELSE LET sorted == SortByDateDesc(logs[player])
                 recent == SubSeq(sorted, 1, IF Len(sorted) < NGames THEN Len(sorted) ELSE NGames)
             IN  [ok |-> TRUE, player |-> player, prop_type |-> prop_type,
                  recent_sum |-> SumOf(recent, col),
                  last_game |-> StatOf(recent[1], col),
                  games_used |-> Len(recent)]

\* the loop over fanduel_df.iterrows(): the features of the rows that have one
RECURSIVE CollectFeatures(_, _)
CollectFeatures(rows, logs) ==
    IF rows = <<>> THEN <<>>
    ELSE LET f == BuildRecentFeatures(Head(rows).player, Head(rows).prop_type, logs)
         IN  (IF f.ok THEN <<f>> ELSE <<>>) \o CollectFeatures(Tail(rows), logs)

\* the feature rows matching one prop row on (player, prop_type), in order
RECURSIVE Matches(_, _)
Matches(row, feats) ==
    IF feats = <<>> THEN <<>>
    ELSE (IF Head(feats).player = row.player /\ Head(feats).prop_type = row.prop_type
          THEN <<[row |-> row, matched |-> TRUE]>> ELSE <<>>) \o Matches(row, Tail(feats))

\* fanduel_df.merge(feat_df, on=["player", "prop_type"], how="left"): every
\* prop row once per matching feature row, and once, without features, when
\* none matches
RECURSIVE LeftMerge(_, _)
LeftMerge(rows, feats) ==
    IF rows = <<>> THEN <<>>
    ELSE LET m == Matches(Head(rows), feats)
         IN  (IF m = <<>> THEN <<[row |-> Head(rows), matched |-> FALSE]>> ELSE m)
             \o LeftMerge(Tail(rows), feats)

\* the integers nearest to n / d (d > 0, n >= 0): one, or the two neighbours
\* when n / d lies exactly half way
Nearest(n, d) ==
    LET q == n \div d
        r == n % d
    IN  IF 2 * r < d THEN {q} ELSE IF 2 * r > d THEN {q + 1} ELSE {q, q + 1}

\* np.round(x, 2) of the float quotient: the nearest hundredth; where the
\* exact quotient lies half way the float lies on the side tieUp names
Round2(n, d, tieUp) ==
    LET c == Nearest(n, d)
    IN  IF tieUp THEN CHOOSE x \in c : \A y \in c : y <= x
                 ELSE CHOOSE x \in c : \A y \in c : x <= y

EdgePctNoAbs(p, line, tieUp) ==
    IF line.t = "nan" THEN NaN
    ELSE IF line.v = 0 THEN (IF p = 0 THEN NaN ELSE Inf)
    ELSE IF p >= line.v THEN Num(Round2((p - line.v) * 10000, line.v, tieUp))
    ELSE Num(0 - Round2((line.v - p) * 10000, line.v, tieUp))

\* np.round(np.abs(model_projection - line) / line * 100, 2), in hundredths:
\* float division, so a zero line gives inf (nan for 0 / 0) and a missing
\* line gives nan
EdgePct(p, line, tieUp) ==
    IF line.t = "nan" THEN NaN
    ELSE IF line.v = 0 THEN (IF p = 0 THEN NaN ELSE Inf)
    ELSE Num(Round2((IF p >= line.v THEN p - line.v ELSE line.v - p) * 10000, line.v, tieUp))

\* (a - b) * 1.5 of two numbers in tenths, in hundredths
ExpectedValue(a, b) ==
    IF a.t = "nan" \/ b.t = "nan" THEN NaN ELSE Num((a.v - b.v) * 15)

\* the output row of one merged row and its projection
EdgeRow(m, p, tieUp) ==
    [player |-> m.row.player, prop_type |-> m.row.prop_type, line |-> m.row.line,
     matched |-> m.matched, model_projection |-> p,
     edge_pct |-> EdgePct(p, m.row.line, tieUp),
     expected_value_over |-> ExpectedValue(Num(p), m.row.line),
     expected_value_under |-> ExpectedValue(m.row.line, Num(p))]

\* the order of sort_values("edge_pct", ascending=False): larger first, inf
\* before every number, nan last
EdgeBefore(a, b) ==
    CASE a.t = "nan" -> FALSE
      [] b.t = "nan" -> TRUE
      [] a.t = "inf" -> b.t # "inf"
      [] b.t = "inf" -> FALSE
      [] OTHER -> a.v > b.v

RECURSIVE InsertByEdge(_, _)
InsertByEdge(sorted, x) ==
    IF sorted = <<>> THEN <<x>>
    ELSE IF EdgeBefore(x.edge_pct, Head(sorted).edge_pct)
         THEN <<x>> \o sorted
         ELSE <<Head(sorted)>> \o InsertByEdge(Tail(sorted), x)

RECURSIVE SortByEdge(_)
SortByEdge(rows) ==
    IF rows = <<>> THEN <<>>
    ELSE InsertByEdge(SortByEdge(SubSeq(rows, 1, Len(rows) - 1)), rows[Len(rows)])

\* run_model_predictions(df): logs is what get_player_stats_summary returns
\* per player, preds what the fitted pipeline predicts per feature row.
\* Indexing a row by "player" raises on a frame without that column;
\* assigning preds to the merged frame raises when the lengths differ;
\* subtracting a text line from a number raises.
RunModelPredictions(df, logs, preds, tieUp) ==
    IF IsEmpty(df) THEN [raised |-> FALSE, rows |-> <<>>, features |-> <<>>]
    ELSE IF df.cols \notin {"props", "fanduel"}
         THEN [raised |-> TRUE, rows |-> <<>>, features |-> <<>>]
    ELSE LET feats == CollectFeatures(df.rows, logs)
             merged == LeftMerge(df.rows, feats)
         IN  IF feats = <<>> THEN [raised |-> FALSE, rows |-> <<>>, features |-> <<>>]
             ELSE IF Len(merged) # Len(feats)
                  THEN [raised |-> TRUE, rows |-> <<>>, features |-> feats]
             ELSE IF \E k \in 1..Len(merged) : merged[k].row.line.t = "text"
                  THEN [raised |-> TRUE, rows |-> <<>>, features |-> feats]
             ELSE [raised |-> FALSE,
                   rows |-> SortByEdge([k \in 1..Len(merged) |->
                                          EdgeRow(merged[k], preds[k], tieUp)]),
                   features |-> feats]

\* the game logs of the players in has, nothing for the others
LogsOf(has) == [pl \in Players |-> IF pl \in has THEN SampleLog ELSE <<>>]

CallRunModelPredictions ==
    /\ ~mdl.called
    /\ \E rows \in SeqsUpTo(PropRows, MaxProps), has \in SUBSET Players, tieUp \in BOOLEAN :
        \E df \in { IF rows = <<>> THEN EmptyDF ELSE [cols |-> "props", rows |-> rows] } :
        \E preds \in [1..Len(CollectFeatures(rows, LogsOf(has))) -> ProjValues] :
        \E r \in { RunModelPredictions(df, LogsOf(has), preds, tieUp) } :
            /\ mdl' = [called |-> TRUE, df |-> df, has |-> has, preds |-> preds,
                       raised |-> r.raised, rows |-> r.rows, features |-> r.features]
            /\ UNCHANGED <<gamesFile, oddsFile, op, resp, ret, fetchCalls, fetched,
                           prevGames, fd, app, featureVars, statsVars, sessionVars, helperVars>>

-----------------------------------------------------------------------------
(* app.py *)

\* an outcome of the game-odds payload is one of FanDuel's ("good"), one of
\* another bookmaker, which the loop passes over ("otherBook"), or sits in
\* an event/bookmaker/market that is not an object ("badGame")
GameOddsItems == {"good", "otherBook", "badGame"}

\* a payload of twelve FanDuel outcomes
TwelveRows == OkResp([i \in 1..12 |-> "good"])

GameOddsResponses == ResponsesOver(GameOddsItems) \cup {TwelveRows}

\* the try block of cached_fetch_oddsapi_game_odds
GameOddsBody(r) ==
    IF r.net = "err" THEN [exc |-> TRUE, df |-> EmptyDF]
    ELSE IF r.status # 200 THEN [exc |-> FALSE, df |-> EmptyDF]
    ELSE IF r.shape = "bad" THEN [exc |-> TRUE, df |-> EmptyDF]
    ELSE IF \E i \in 1..Len(r.items) : r.items[i] = "badGame"
         THEN [exc |-> TRUE, df |-> EmptyDF]
    ELSE LET rows == GoodRows(r.items, 1)
         IN  [exc |-> FALSE,
              df |-> IF rows = <<>> THEN EmptyDF ELSE [cols |-> "gameodds", rows |-> rows]]

CachedFetchOddsapiGameOddsNoCatch(r) ==
    LET b == GameOddsBody(r)
    IN  [raised |-> b.exc, df |-> b.df]

\* cached_fetch_oddsapi_game_odds: "except Exception: return pd.DataFrame()"
CachedFetchOddsapiGameOdds(r) ==
    LET b == GameOddsBody(r)
    IN  [raised |-> FALSE, df |-> IF b.exc THEN EmptyDF ELSE b.df]

\* cached_fetch_fanduel: a raising scraper is reported with st.error and
\* answered with an empty frame
CachedFetchFanduel(in, file) ==
    LET f == FetchFanduelProps(in, file)
    IN  [raised |-> FALSE, df |-> IF f.raised THEN EmptyDF ELSE f.df,
         error |-> f.raised, file |-> f.file]

\* step 1 of the fetch sequence: its own try around cached_fetch_fanduel
ScraperStep(in, file) ==
    LET c == CachedFetchFanduel(in, file)
    IN  [raised |-> FALSE, df |-> IF c.raised THEN EmptyDF ELSE c.df,
         error |-> c.error \/ c.raised, file |-> c.file]

\* cached_fetch_games
CachedFetchGames(r, file) ==
    LET f == FetchGamesToday(r, file)
    IN  [raised |-> FALSE, df |-> IF f.raised THEN EmptyDF ELSE f.df, file |-> f.file]

ModelInputScraperOnly(fanduel_df, odds_game_df) == fanduel_df

\* input_odds_df: the scraped props when there are any, else the game odds
ModelInput(fanduel_df, odds_game_df) ==
    IF ~IsEmpty(fanduel_df) THEN fanduel_df ELSE odds_game_df

ModelStageEitherEmpty(fanduel_df, odds_game_df, logs, preds, tieUp) ==
    IF IsEmpty(fanduel_df) \/ IsEmpty(odds_game_df)
    THEN [raised |-> FALSE, msg |-> "info_no_odds", called |-> FALSE,
          input |-> EmptyDF, rows |-> <<>>]
    ELSE LET input == ModelInput(fanduel_df, odds_game_df)
             r == RunModelPredictions(input, logs, preds, tieUp)
         IN  [raised |-> FALSE,
              msg |-> IF r.raised THEN "error"
                      ELSE IF r.rows # <<>> THEN "data" ELSE "info_no_predictions",
              called |-> TRUE, input |-> input, rows |-> r.rows]

\* the model stage: its try block runs the model unless both frames are
\* empty; its handler turns an exception into the st.error message
ModelStage(fanduel_df, odds_game_df, logs, preds, tieUp) ==
    IF IsEmpty(fanduel_df) /\ IsEmpty(odds_game_df)
    THEN [raised |-> FALSE, msg |-> "info_no_odds", called |-> FALSE,
          input |-> EmptyDF, rows |-> <<>>]
    ELSE LET input == ModelInput(fanduel_df, odds_game_df)
             r == RunModelPredictions(input, logs, preds, tieUp)
         IN  [raised |-> FALSE,
              msg |-> IF r.raised THEN "error"
                      ELSE IF r.rows # <<>> THEN "data" ELSE "info_no_predictions",
              called |-> TRUE, input |-> input, rows |-> r.rows]

\* the record of one run: the frames fetched, the fetches invoked, what each
\* stage ended in and whether an exception left the script
RunRecord(in, s, g, o, m, odds0) ==
    LET gamesRan == ~s.raised
        oddsRan == gamesRan /\ ~g.raised
        shown == oddsRan /\ ~o.raised
        games_df == IF gamesRan THEN g.df ELSE EmptyDF
        odds_game_df == IF oddsRan THEN o.df ELSE EmptyDF
    IN  [ran |-> TRUE,
         in |-> in,
         fanduel_df |-> s.df,
         games_df |-> games_df,
         odds_game_df |-> odds_game_df,
         scraper_error |-> s.error,
         invoked |-> <<"fetch_fanduel_props">>
                     \o (IF gamesRan THEN <<"fetch_games_today">> ELSE <<>>)
                     \o (IF oddsRan THEN <<"oddsapi_game_odds">> ELSE <<>>),
         input |-> IF shown THEN m.input ELSE EmptyDF,
         modelCalled |-> shown /\ m.called,
         stages |->
           [props |-> IF ~shown THEN "notrun"
                      ELSE IF ~IsEmpty(s.df) THEN "data" ELSE "warning",
            games |-> IF ~shown THEN "notrun"
                      ELSE IF ~IsEmpty(games_df) THEN "data" ELSE "warning",
            odds  |-> IF ~shown THEN "notrun"
                      ELSE IF ~IsEmpty(odds_game_df) THEN "data" ELSE "info",
            model |-> IF ~shown THEN "notrun" ELSE m.msg],
         uncaught |-> \/ s.raised
                      \/ (gamesRan /\ g.raised)
                      \/ (oddsRan /\ o.raised)
                      \/ (shown /\ m.raised),
         prevOdds |-> odds0]

\* the answers the schedule API and the odds API give to one run
AppGamesResponses == {ConnErr, Non200, BadShape} \cup { OkResp(x) : x \in SeqsUpTo(GameItems, 1) }
AppOddsResponses ==
    {ConnErr, Non200, BadShape, TwelveRows} \cup { OkResp(x) : x \in SeqsUpTo(GameOddsItems, 1) }

\* One run of the script from the fetch sequence to the model stage.  The
\* status panel before it calls three checks that catch their own exceptions
\* and change nothing; a statement that raised uncaught would end the run,
\* the later stages staying "notrun".
AppRun ==
    \E driverOK \in BOOLEAN, page \in PageOutcomes,
       gr \in AppGamesResponses, orr \in AppOddsResponses :
        /\ (~driverOK => page = "raise")
        /\ \E s \in { ScraperStep([driverOK |-> driverOK, quitOK |-> TRUE,
                                     m |-> DefaultMaxAttempts,
                                     pages |-> [u \in 1..NumUrls |->
                                                 [a \in 1..DefaultMaxAttempts |-> page]]],
                                    oddsFile) },
              g \in { CachedFetchGames(gr, gamesFile) },
              o \in { CachedFetchOddsapiGameOdds(orr) } :
           \E has \in (IF IsEmpty(s.df) THEN {{}} ELSE SUBSET Players),
              tieUp \in (IF IsEmpty(s.df) THEN {FALSE} ELSE BOOLEAN) :
           \E preds \in [1..Len(CollectFeatures(s.df.rows, LogsOf(has))) -> ProjValues] :
           \E m \in { ModelStage(s.df, IF s.raised \/ g.raised THEN EmptyDF ELSE o.df,
                                  LogsOf(has), preds, tieUp) } :
               /\ app' = RunRecord([driverOK |-> driverOK, page |-> page,
                                    games |-> gr, odds |-> orr], s, g, o, m, oddsFile)
               /\ oddsFile' = s.file
               /\ gamesFile' = IF s.raised THEN gamesFile ELSE g.file
               /\ UNCHANGED <<op, resp, ret, fetchCalls, fetched, prevGames, fd, mdl, featureVars, statsVars, sessionVars, helperVars>>

-----------------------------------------------------------------------------
(* models/prop_model.py and scripts/build_features.py: rolling features *)

\* the window of the _L5 columns
RollShort == 5

\* the window of the _L10 columns
RollLong == 10

\* get_recent_logs returns logs.tail(20)
TailRows == 20

\* the stat columns of a game log that the builders roll
RolledColumns == <<"PTS", "REB", "AST", "FG3M", "MIN">>

\* the columns of the game-log frame the log API delivers (those the builders
\* touch): there is no PRA column
LogColumns == {"GAME_DATE", "PTS", "REB", "AST", "FG3M", "MIN"}

\* The game log of len games, oldest first: game d was played on day d.  In
\* the game numbered hole (0 for none) the PTS cell is missing.
GameLog(len, hole) ==
    [d \in 1..len |->
        [GAME_DATE |-> d,
         PTS  |-> IF d = hole THEN NaN ELSE Num(10 + (d % 7)),
         REB  |-> Num(2 + (d % 5)),
         AST  |-> Num(1 + (d % 4)),
         FG3M |-> Num(d % 3),
         MIN  |-> Num(25 + (d % 6))]]

\* a + b of two cells: NaN when either is
AddCells(a, b) == IF a.t # "num" \/ b.t # "num" THEN NaN ELSE Num(a.v + b.v)

\* the cell of a log row in a column; PRA is PTS + REB + AST
Cell(g, col) ==
    CASE col = "PTS" -> g.PTS
      [] col = "REB" -> g.REB
      [] col = "AST" -> g.AST
      [] col = "FG3M" -> g.FG3M
      [] col = "MIN" -> g.MIN
      [] OTHER -> AddCells(AddCells(g.PTS, g.REB), g.AST)

\* the sum of a column over rows from..to: NaN when a cell is missing
RECURSIVE WindowSum(_, _, _, _)
WindowSum(rows, col, from, to) ==
    IF from > to THEN Num(0)
    ELSE AddCells(Cell(rows[from], col), WindowSum(rows, col, from + 1, to))

\* Series.rolling(w).mean() at row i, kept as the sum of the window (w times
\* the mean): undefined before the window is full and when a cell of the
\* window is missing
Rolling(rows, col, w, i) ==
    IF i < w THEN NaN ELSE WindowSum(rows, col, i - w + 1, i)

\* row i of the frame of prepare_training_data after the rolling columns and
\* PRA were added
TrainRow(rows, i) ==
    [idx |-> i,
     PTS_L5 |-> Rolling(rows, "PTS", RollShort, i),
     REB_L5 |-> Rolling(rows, "REB", RollShort, i),
     AST_L5 |-> Rolling(rows, "AST", RollShort, i),
     FG3M_L5 |-> Rolling(rows, "FG3M", RollShort, i),
     MIN_L5 |-> Rolling(rows, "MIN", RollShort, i),
     PRA |-> Cell(rows[i], "PRA")]

\* a row that dropna() drops: a missing cell in any column
RowHasNaN(rows, i) ==
    LET t == TrainRow(rows, i)
    IN  \/ \E k \in 1..Len(RolledColumns) : Cell(rows[i], RolledColumns[k]).t # "num"
        \/ \E v \in {t.PTS_L5, t.REB_L5, t.AST_L5, t.FG3M_L5, t.MIN_L5, t.PRA} : v.t # "num"

\* the rows of the frame that are kept, in order, from row i on
RECURSIVE KeptRows(_, _, _)
KeptRows(rows, i, dropna) ==
    IF i > Len(rows) THEN <<>>
    ELSE (IF dropna /\ RowHasNaN(rows, i) THEN <<>> ELSE <<TrainRow(rows, i)>>)
         \o KeptRows(rows, i + 1, dropna)

PrepareTrainingDataNoDropna(rows, target_col) ==
    IF rows = <<>> \/ target_col \notin LogColumns
    THEN [raised |-> TRUE, X |-> <<>>]
    ELSE [raised |-> FALSE, X |-> KeptRows(rows, 1, FALSE)]

\* prepare_training_data(df, target_col): ValueError on an empty frame or a
\* target that is not a column of df (PRA is computed only after the check);
\* X holds the rows dropna() left, y their target cells
PrepareTrainingData(rows, target_col) ==
    IF rows = <<>> \/ target_col \notin LogColumns
    THEN [raised |-> TRUE, X |-> <<>>]
    ELSE [raised |-> FALSE, X |-> KeptRows(rows, 1, TRUE)]

\* sort_values("GAME_DATE"): a stable insertion sort, oldest first
RECURSIVE InsertByDateAsc(_, _)
InsertByDateAsc(sorted, g) ==
    IF sorted = <<>> THEN <<g>>
    ELSE IF Head(sorted).GAME_DATE <= g.GAME_DATE
         THEN <<Head(sorted)>> \o InsertByDateAsc(Tail(sorted), g)
         ELSE <<g>> \o sorted

RECURSIVE SortByDateAsc(_)
SortByDateAsc(lg) ==
    IF lg = <<>> THEN <<>>
    ELSE InsertByDateAsc(SortByDateAsc(SubSeq(lg, 1, Len(lg) - 1)), lg[Len(lg)])

\* the log as the log API delivers it: latest game first
Latest1st(rows) == [i \in 1..Len(rows) |-> rows[Len(rows) + 1 - i]]

\* row i of the frame of get_recent_logs: the PTS and PRA rolling columns
\* (REB, AST, FG3M and MIN get theirs by the same loop)
RecentRow(rows, i) ==
    [idx |-> i,
     PTS_L5 |-> Rolling(rows, "PTS", RollShort, i),
     PTS_L10 |-> Rolling(rows, "PTS", RollLong, i),
     MIN_L5 |-> Rolling(rows, "MIN", RollShort, i),
     MIN_L10 |-> Rolling(rows, "MIN", RollLong, i),
     PRA |-> Cell(rows[i], "PRA"),
     PRA_L5 |-> Rolling(rows, "PRA", RollShort, i),
     PRA_L10 |-> Rolling(rows, "PRA", RollLong, i)]

\* logs.tail(n) of the annotated frame
TailOf(rows, n) ==
    LET first == IF Len(rows) > n THEN Len(rows) - n + 1 ELSE 1
    IN  [k \in 1..(Len(rows) + 1 - first) |-> RecentRow(rows, first + k - 1)]

\* get_recent_logs: an empty frame for an unknown player and when the log
\* API or a later statement raises; else the last 20 rows of the log sorted
\* by date, each with its rolling columns, defined or not
GetRecentLogs(found, apiOK, delivered) ==
    IF ~found \/ ~apiOK THEN [raised |-> FALSE, rows |-> <<>>]
    ELSE [raised |-> FALSE, rows |-> TailOf(SortByDateAsc(delivered), TailRows)]

-----------------------------------------------------------------------------
(* models/prop_model.py: training and prediction *)

\* stat_cols of predict_props
StatCols == <<"PTS", "REB", "AST", "PRA", "FG3M">>

\* the fewest samples train_test_split(test_size=0.2) splits: one is held
\* out for validation, one at least must remain to train on
MinTrainRows == 2

\* train_prop_model(df, target_col): raises when prepare_training_data does
\* or the split cannot be made; else saves the fitted model to
\* <target_col>_model.joblib and returns the pair (model, mae)
TrainPropModel(rows, target_col, files) ==
    LET p == PrepareTrainingData(rows, target_col)
    IN  IF p.raised \/ Len(p.X) < MinTrainRows
        THEN [exc |-> TRUE, value |-> "none", files |-> files]
        ELSE [exc |-> FALSE, value |-> "pair", files |-> files \cup {target_col}]

\* load_or_train(df, target_col): the model loaded from the file when there
\* is one, else whatever train_prop_model returns, that is the pair
LoadOrTrain(rows, target_col, files) ==
    IF target_col \in files
    THEN [exc |-> FALSE, value |-> "model", files |-> files]
    ELSE TrainPropModel(rows, target_col, files)

\* one pass of the loop of predict_props: ok says whether a projection was
\* appended.  model.predict on the pair raises AttributeError, as does
\* indexing the prediction of no row; the handler prints and goes on.
PredictStat(rows, stat, files) ==
    LET l == LoadOrTrain(rows, stat, files)
        p == PrepareTrainingData(rows, stat)
    IN  [ok |-> ~l.exc /\ ~p.raised /\ l.value = "model" /\ p.X # <<>>,
         files |-> l.files]

\* predict_props(df): the projection rows (their prop_type; the projection
\* is what the regressor predicts) and the model files afterwards
RECURSIVE PredictLoop(_, _, _, _)
PredictLoop(rows, k, files, results) ==
    IF k > Len(StatCols) THEN [raised |-> FALSE, rows |-> results, files |-> files]
    ELSE LET s == PredictStat(rows, StatCols[k], files)
         IN  PredictLoop(rows, k + 1, s.files,
                         IF s.ok THEN Append(results, [prop_type |-> StatCols[k]])
                         ELSE results)

PredictProps(rows, files) == PredictLoop(rows, 1, files, <<>>)

-----------------------------------------------------------------------------
(* scripts/fetch_player_stats.py *)

\* a cache younger than this many seconds is returned without a fetch
FreshSeconds == 43200

\* range(3): the attempts of one call
ApiAttempts == 3

\* time.sleep after ReadTimeout or ConnectionError
TimeoutSleep == 3

\* time.sleep after any other exception
ErrorSleep == 1

\* no file at the cache path
CacheMissing == [exists |-> FALSE, json |-> "none", recs |-> <<>>, age |-> 0]

\* df.to_json(cache_file, orient="records") just made: an empty frame is
\* written as []
CacheWritten(df) ==
    [exists |-> TRUE, json |-> IF df.rows = <<>> THEN "emptylist" ELSE "records",
     recs |-> df.rows, age |-> 0]

\* cache files that are not as a call left them: cut short (json.load
\* raises) or holding a value pd.DataFrame refuses
ForeignCaches ==
    { [exists |-> TRUE, json |-> "invalid", recs |-> <<>>, age |-> 0],
      [exists |-> TRUE, json |-> "scalar", recs |-> <<>>, age |-> 0] }

\* the ages, in seconds, at which the model looks at a cache file
ObservedAges == {0, FreshSeconds - 1, FreshSeconds, FreshSeconds + 1}

\* what one PlayerGameLog request does: it delivers the log, raises
\* ReadTimeout or ConnectionError, or raises something else (so does a
\* failing statement after it in the try block)
ApiOutcomes == {"ok", "timeout", "error"}

\* the game logs the log API may deliver: none played yet, or two games
ApiLogs == {<<>>, SampleLog}

\* json.load and pd.DataFrame(data) of a cache file: ok is FALSE when either
\* raises; [] makes an empty frame
ReadCache(cache) ==
    IF cache.json \in {"records", "emptylist"}
    THEN [ok |-> TRUE,
          df |-> IF cache.recs = <<>> THEN EmptyDF ELSE [cols |-> "logs", rows |-> cache.recs]]
    ELSE [ok |-> FALSE, df |-> EmptyDF]

IsFreshInclusive(cache) == cache.exists /\ cache.age <= FreshSeconds

\* os.path.exists(cache_file) and (time.time() - getmtime(cache_file)) < 43200
IsFresh(cache) == cache.exists /\ cache.age < FreshSeconds

RECURSIVE AttemptLoopOneSleep(_, _, _, _, _)
AttemptLoopOneSleep(k, outcomes, apiLog, cache, acc) ==
    IF k > ApiAttempts
    THEN [done |-> FALSE, df |-> EmptyDF, calls |-> acc.calls, sleeps |-> acc.sleeps,
          cache |-> cache]
    ELSE IF outcomes[k] = "ok"
         THEN LET df == [cols |-> "logs", rows |-> apiLog]
              IN  [done |-> TRUE, df |-> df, calls |-> acc.calls + 1,
                   sleeps |-> acc.sleeps, cache |-> CacheWritten(df)]
         ELSE AttemptLoopOneSleep(k + 1, outcomes, apiLog, cache,
                                  [calls |-> acc.calls + 1,
                                   sleeps |-> Append(acc.sleeps, ErrorSleep)])

\* The attempts from number k on: the first that delivers writes the cache
\* and returns the log; one that raises is followed by its sleep.  acc
\* counts the requests made and lists the sleeps.
RECURSIVE AttemptLoop(_, _, _, _, _)
AttemptLoop(k, outcomes, apiLog, cache, acc) ==
    IF k > ApiAttempts
    THEN [done |-> FALSE, df |-> EmptyDF, calls |-> acc.calls, sleeps |-> acc.sleeps,
          cache |-> cache]
    ELSE IF outcomes[k] = "ok"
         THEN LET df == [cols |-> "logs", rows |-> apiLog]
              IN  [done |-> TRUE, df |-> df, calls |-> acc.calls + 1,
                   sleeps |-> acc.sleeps, cache |-> CacheWritten(df)]
         ELSE AttemptLoop(k + 1, outcomes, apiLog, cache,
                          [calls |-> acc.calls + 1,
                           sleeps |-> Append(acc.sleeps,
                                             IF outcomes[k] = "timeout" THEN TimeoutSleep
                                             ELSE ErrorSleep)])

StaleFallbackNone(cache) == [source |-> "none", df |-> EmptyDF]

\* the fallback after the attempts: the cache file of any age when it
\* exists and reads, else an empty frame
StaleFallback(cache) ==
    IF cache.exists /\ ReadCache(cache).ok
    THEN [source |-> "stale", df |-> ReadCache(cache).df]
    ELSE [source |-> "none", df |-> EmptyDF]

\* get_player_stats_summary: known says whether _get_player_id resolved the
\* name, outcomes[k] is what request k would do, apiLog the log delivered
GetPlayerStatsSummary(known, outcomes, apiLog, cache) ==
    IF ~known
    THEN [raised |-> FALSE, df |-> EmptyDF, calls |-> 0, sleeps |-> <<>>,
          source |-> "none", cache |-> cache]
    ELSE IF IsFresh(cache) /\ ReadCache(cache).ok
    THEN [raised |-> FALSE, df |-> ReadCache(cache).df, calls |-> 0, sleeps |-> <<>>,
          source |-> "fresh", cache |-> cache]
    ELSE LET a == AttemptLoop(1, outcomes, apiLog, cache, [calls |-> 0, sleeps |-> <<>>])
             f == StaleFallback(cache)
         IN  IF a.done
             THEN [raised |-> FALSE, df |-> a.df, calls |-> a.calls, sleeps |-> a.sleeps,
                   source |-> "api", cache |-> a.cache]
             ELSE [raised |-> FALSE, df |-> f.df, calls |-> a.calls, sleeps |-> a.sleeps,
                   source |-> f.source, cache |-> a.cache]

\* a call for the player whose cache file cacheFile is (known), or for a
\* name the static player list does not hold, which has no cache file
CallGetPlayerStatsSummary ==
    \E known \in BOOLEAN, outcomes \in [1..ApiAttempts -> ApiOutcomes], apiLog \in ApiLogs :
    \E before \in { IF known THEN cacheFile ELSE CacheMissing } :
    \E g \in { GetPlayerStatsSummary(known, outcomes, apiLog, before) } :
        /\ ps' = [called |-> TRUE, known |-> known, outcomes |-> outcomes,
                  apiLog |-> apiLog, cacheBefore |-> before, raised |-> g.raised,
                  df |-> g.df, calls |-> g.calls, sleeps |-> g.sleeps,
                  source |-> g.source,
                  cacheAfter |-> IF known THEN g.cache ELSE cacheFile]
        /\ cacheFile' = IF known THEN g.cache ELSE cacheFile
        /\ UNCHANGED <<adapterVars, fd, app, mdl, featureVars, sessionVars, helperVars>>

\* time passes: the cache file, if there is one, grows older
Elapse ==
    /\ cacheFile.exists
    /\ \E a \in ObservedAges :
          /\ a > cacheFile.age
          /\ cacheFile' = [cacheFile EXCEPT !.age = a]
    /\ UNCHANGED <<adapterVars, fd, app, mdl, featureVars, ps, sessionVars, helperVars>>

PsIdle ==
    [called |-> FALSE, known |-> FALSE, outcomes |-> [k \in 1..ApiAttempts |-> "error"],
     apiLog |-> <<>>, cacheBefore |-> CacheMissing, raised |-> FALSE, df |-> EmptyDF,
     calls |-> 0, sleeps |-> <<>>, source |-> "none", cacheAfter |-> CacheMissing]

StatsIdle ==
    /\ ps = PsIdle
    /\ cacheFile = CacheMissing

-----------------------------------------------------------------------------
(* scripts/fanduel_xhr.py *)

\* the content-service endpoints of urls
NumXhrUrls == 2

\* the length of "prop", the shortest of the texts "player", "prop", "market"
\* the scan looks for
MinKeywordLen == 4

\* A piece of json.dumps(data).split("},"): its length in characters and
\* whether it holds one of the texts the scan looks for (no piece of one or
\* two characters can).
XhrChunks ==
    { [size |-> 1, named |-> FALSE], [size |-> 2, named |-> FALSE],
      [size |-> 9, named |-> FALSE], [size |-> 9, named |-> TRUE] }

\* What one endpoint does: requests.get raises, the status is not 200,
\* r.json() raises, or the body parses and its dump splits into these pieces
\* (split always yields at least one).
XhrAnswers ==
    { [kind |-> k, chunks |-> <<>>] : k \in {"raise", "non200", "badjson"} }
    \cup { [kind |-> "ok", chunks |-> c] :
             c \in SeqsUpTo(XhrChunks, MaxChunks) \ {<<>>} }

\* "for k, v in <pieces>" of one body: a piece unpacks into k, v only when it
\* is a text of exactly two characters, k being its first character; any
\* other piece raises ValueError, which the handler of the url absorbs, the
\* records appended before it staying in the list.  k is kept when it holds
\* one of the texts looked for.
RECURSIVE XhrScan(_, _, _)
XhrScan(chunks, i, acc) ==
    IF i > Len(chunks) THEN acc
    ELSE IF chunks[i].size # 2 THEN acc
    ELSE IF chunks[i].named /\ chunks[i].size - 1 >= MinKeywordLen
         THEN XhrScan(chunks, i + 1, Append(acc, [id |-> Len(acc) + 1]))
         ELSE XhrScan(chunks, i + 1, acc)

\* the loop over urls
RECURSIVE XhrRecords(_, _, _)
XhrRecords(answers, u, acc) ==
    IF u > NumXhrUrls THEN acc
    ELSE IF answers[u].kind # "ok" THEN XhrRecords(answers, u + 1, acc)
    ELSE XhrRecords(answers, u + 1, XhrScan(answers[u].chunks, 1, acc))

\* the envelope json.dump writes: count and records of the frame
XhrEnvelopeFile(df) ==
    [exists |-> TRUE, size |-> 100 + 100 * Len(df.rows), json |-> "envelope",
     fmt |-> "xhr", recs |-> df.rows, count |-> Len(df.rows)]

\* fetch_fanduel_props_xhr: pd.DataFrame(records) of an empty list has no
\* column, so df["raw"] raises KeyError outside every handler, before the
\* columns are set and before the snapshot is opened; with records the
\* columns player .. bookmaker ("xhr") are set and the envelope is written.
FetchFanduelPropsXhr(answers, file) ==
    LET records == XhrRecords(answers, 1, <<>>)
    IN  IF records = <<>>
        THEN [df |-> EmptyDF, file |-> file, raised |-> TRUE]
        ELSE LET df == [cols |-> "xhr", rows |-> records]
             IN  [df |-> df, file |-> XhrEnvelopeFile(df), raised |-> FALSE]

-----------------------------------------------------------------------------
(* app.py: the cached fetches over the reruns of a session *)

\* the cache TTLs, in seconds
CACHE_TTL_SCRAPE == 120
CACHE_TTL_GAMES == 300
CACHE_TTL_ODDS == 120

\* cached_fetch_fanduel, cached_fetch_games, cached_fetch_oddsapi_game_odds
CachedFetches == {"scrape", "games", "odds"}

TtlOfGamesAsScrape(f) ==
    CASE f = "scrape" -> CACHE_TTL_SCRAPE
      [] f = "games" -> CACHE_TTL_SCRAPE
      [] f = "odds" -> CACHE_TTL_ODDS

\* the ttl argument of each st.cache_data decorator
TtlOf(f) ==
    CASE f = "scrape" -> CACHE_TTL_SCRAPE
      [] f = "games" -> CACHE_TTL_GAMES
      [] f = "odds" -> CACHE_TTL_ODDS

\* the fetch a cached function runs when its value is not served from the
\* store
UnderlyingOf(f) ==
    CASE f = "scrape" -> "fetch_fanduel_props"
      [] f = "games" -> "fetch_games_today"
      [] f = "odds" -> "oddsapi_game_odds"

\* An entry of the st.cache_data store: the frame returned, whether the
\* function body showed st.error (shown again with the stored value), and
\* the seconds since the value was stored.
NoEntry == [df |-> EmptyDF, has |-> FALSE, error |-> FALSE, age |-> 0]
Entry(df, error) == [df |-> df, has |-> TRUE, error |-> error, age |-> 0]

\* st.cache_data(ttl = ...): a stored value is served while it is younger
\* than the ttl of its function
CacheHit(f, store) == store[f].has /\ store[f].age < TtlOf(f)

\* st.cache_data.clear(): every function's stored value goes
ClearCaches(store) == [f \in CachedFetches |-> NoEntry]

\* ages are followed up to just past the longest TTL
AgeCap == CACHE_TTL_GAMES + 1

\* the pauses between two reruns the model follows, besides the one second
\* that brings a stored value to its TTL
WaitSteps == {CACHE_TTL_SCRAPE - 1, CACHE_TTL_GAMES - CACHE_TTL_SCRAPE - 1}

\* the answers the schedule API and the odds API give in a session
SessionGamesResponses == {ConnErr, OkResp(<<"good">>)}
SessionOddsResponses == {ConnErr, OkResp(<<"good">>)}

\* the fetches a run invoked, in the order of the fetch sequence
InvokedBy(store) ==
    (IF CacheHit("scrape", store) THEN <<>> ELSE <<UnderlyingOf("scrape")>>)
    \o (IF CacheHit("games", store) THEN <<>> ELSE <<UnderlyingOf("games")>>)
    \o (IF CacheHit("odds", store) THEN <<>> ELSE <<UnderlyingOf("odds")>>)

\* One run of the script against the store it finds: each cached function
\* serves its stored value or runs its body and stores what it returned; the
\* rest of the run is that of AppRun.  The answers of a source that is not
\* asked are left at their defaults.
SessionRun(store, step) ==
    \E driverOK \in BOOLEAN, page \in PageOutcomes,
       gr \in SessionGamesResponses, orr \in SessionOddsResponses :
        /\ (~driverOK => page = "raise")
        /\ (CacheHit("scrape", store) => ~driverOK)
        /\ (CacheHit("games", store) => gr = ConnErr)
        /\ (CacheHit("odds", store) => orr = ConnErr)
        /\ \E s \in { IF CacheHit("scrape", store)
                      THEN [raised |-> FALSE, df |-> store["scrape"].df,
                            error |-> store["scrape"].error, file |-> oddsFile]
                      ELSE ScraperStep([driverOK |-> driverOK, quitOK |-> TRUE,
                                        m |-> DefaultMaxAttempts,
                                        pages |-> [u \in 1..NumUrls |->
                                                    [a \in 1..DefaultMaxAttempts |-> page]]],
                                       oddsFile) },
              g \in { IF CacheHit("games", store)
                      THEN [raised |-> FALSE, df |-> store["games"].df, file |-> gamesFile]
                      ELSE CachedFetchGames(gr, gamesFile) },
              o \in { IF CacheHit("odds", store)
                      THEN [raised |-> FALSE, df |-> store["odds"].df]
                      ELSE CachedFetchOddsapiGameOdds(orr) } :
           \E has \in (IF IsEmpty(s.df) THEN {{}} ELSE SUBSET Players),
              tieUp \in (IF IsEmpty(s.df) THEN {FALSE} ELSE BOOLEAN) :
           \E preds \in [1..Len(CollectFeatures(s.df.rows, LogsOf(has))) -> ProjValues] :
           \E m \in { ModelStage(s.df, IF s.raised \/ g.raised THEN EmptyDF ELSE o.df,
                                  LogsOf(has), preds, tieUp) } :
               /\ app' = [RunRecord([driverOK |-> driverOK, page |-> page,
                                     games |-> gr, odds |-> orr], s, g, o, m, oddsFile)
                            EXCEPT !.invoked = InvokedBy(store)]
               /\ stCache' =
                     [f \in CachedFetches |->
                        IF CacheHit(f, store) THEN store[f]
                        ELSE CASE f = "scrape" -> Entry(s.df, s.error)
                               [] f = "games" -> Entry(g.df, FALSE)
                               [] f = "odds" -> Entry(o.df, FALSE)]
               /\ oddsFile' = s.file
               /\ gamesFile' = IF s.raised THEN gamesFile ELSE g.file
               /\ uiStep' = step
               /\ UNCHANGED <<op, resp, ret, fetchCalls, fetched, prevGames, fd, mdl,
                              featureVars, statsVars, helperVars>>

\* a rerun of the script (a widget was touched, the page was reloaded)
AppRerun == SessionRun(stCache, "run")

\* "Refresh Data (force)": st.cache_data.clear(), then st.experimental_rerun()
\* ends this run before the fetch sequence and starts the script again
RefreshData == SessionRun(ClearCaches(stCache), "refresh")

\* Seconds pass between two runs: every stored value ages.
SessionWait ==
    /\ \E f \in CachedFetches : stCache[f].has /\ stCache[f].age < AgeCap
    /\ \E d \in WaitSteps \cup {1} :
          /\ d = 1 => \E f \in CachedFetches :
                         stCache[f].has /\ stCache[f].age + 1 = TtlOf(f)
          /\ stCache' = [f \in CachedFetches |->
                           IF stCache[f].has
                           THEN [stCache[f] EXCEPT
                                   !.age = IF @ + d > AgeCap THEN AgeCap ELSE @ + d]
                           ELSE stCache[f]]
    /\ uiStep' = "wait"
    /\ UNCHANGED <<adapterVars, fd, app, mdl, featureVars, statsVars, helperVars>>

\* the server has just started: nothing is stored
SessionIdle ==
    /\ stCache = [f \in CachedFetches |-> NoEntry]
    /\ uiStep = "none"

-----------------------------------------------------------------------------
(* _parse_props_from_html of scripts/fetch_fanduel.py *)

\* A value of a parsed record: None, a text, a float (in tenths), or a JSON
\* object or array.
NoneCell == [kind |-> "none", text |-> "", num |-> 0]
TextCell(s) == [kind |-> "text", text |-> s, num |-> 0]
FloatCell(n) == [kind |-> "float", text |-> "", num |-> n]
ObjCell == [kind |-> "obj", text |-> "", num |-> 0]

\* str(x) of a float with one decimal, given in tenths
FloatText(n) ==
    IF n < 0 THEN "-" \o ToString((0 - n) \div 10) \o "." \o ToString((0 - n) % 10)
    ELSE ToString(n \div 10) \o "." \o ToString(n % 10)

\* str(x) of a line or odds value
CellText(c) ==
    CASE c.kind = "none" -> "None"
      [] c.kind = "text" -> c.text
      [] c.kind = "float" -> FloatText(c.num)
      [] OTHER -> "{...}"

\* The records heuristic 1 appends for the outcomes of the market nodes: the
\* player is the first text part, the line a text token with a number or
\* None, the odds a text token in parentheses or None, the team None.
MarketRecords ==
    [player : {TextCell("A")}, prop_type : {"PTS"},
     line : {NoneCell, TextCell("21.5")},
     odds : {NoneCell, TextCell("(+120)")},
     team : {NoneCell}]

\* The records heuristic 2 appends for the objects of a script's JSON that
\* have a name and a price: the values are whatever the JSON holds.
ScriptRecords ==
    [player : {TextCell("A"), ObjCell}, prop_type : {"PTS"},
     line : {NoneCell, FloatCell(215)},
     odds : {FloatCell(19), TextCell("(+120)")},
     team : {TextCell("LAL")}]

\* a dict or a list in a tuple makes the tuple unhashable
Hashable(r) == r.player.kind # "obj"

RecordKeyRaw(r) == <<r.player, r.prop_type, r.line, r.odds>>

\* key = (r.get("player"), r.get("prop_type"), str(r.get("line")), str(r.get("odds")))
RecordKey(r) == <<r.player, r.prop_type, CellText(r.line), CellText(r.odds)>>

\* the loop over records: "key in seen" raises TypeError on an unhashable key
RECURSIVE CleanRecords(_, _, _)
CleanRecords(records, seen, cleaned) ==
    IF records = <<>> THEN [raised |-> FALSE, cleaned |-> cleaned]
    ELSE LET r == Head(records)
         IN  IF ~Hashable(r) THEN [raised |-> TRUE, cleaned |-> <<>>]
             ELSE IF RecordKey(r) \in seen
                  THEN CleanRecords(Tail(records), seen, cleaned)
                  ELSE CleanRecords(Tail(records), seen \cup {RecordKey(r)},
                                    Append(cleaned, r))

\* _parse_props_from_html(html), records being what the two heuristics made
\* of the page
ParsePropsFromHtml(records) == CleanRecords(records, {}, <<>>)

ParseIdle == [called |-> FALSE, records |-> <<>>, raised |-> FALSE, cleaned |-> <<>>]

\* a call on a page of up to MaxRecords parsed records: the records of the
\* market nodes come first, those of the scripts after them
CallParsePropsFromHtml ==
    /\ ~parse.called
    /\ \E k \in 0..MaxRecords :
       \E j \in 0..(MaxRecords - k) :
       \E m \in [1..k -> MarketRecords], s \in [1..j -> ScriptRecords] :
       \E r \in { ParsePropsFromHtml(m \o s) } :
            parse' = [called |-> TRUE, records |-> m \o s,
                      raised |-> r.raised, cleaned |-> r.cleaned]
    /\ UNCHANGED <<adapterVars, fd, app, mdl, featureVars, statsVars, sessionVars, rf>>

\* no helper has been called on its own
RfIdle ==
    [called |-> FALSE, prop_type |-> "", log |-> <<>>,
     f |-> [ok |-> FALSE, player |-> "A", prop_type |-> "",
            recent_sum |-> 0, last_game |-> 0, games_used |-> 0]]

HelpersIdle ==
    /\ parse = ParseIdle
    /\ rf = RfIdle

-----------------------------------------------------------------------------
(* build_recent_features of scripts/apply_predictions.py as an entry point *)

\* the day of the season's first game, the 22nd of October
OpeningDay == 22

\* the days between two games of the player
GameGaps == {2, 15}

\* the i-th game of the player's season
SeasonGame(i, gap) ==
    [GAME_DATE |-> OpeningDay + gap * (i - 1),
     PTS |-> 10 + i, REB |-> 2 + (i % 5), AST |-> 1 + (i % 4), FG3M |-> i % 3]

\* the log of the first len games as the log API delivers it and as the
\* cache file gives it back: latest game first
SeasonLog(len, gap) == [k \in 1..len |-> SeasonGame(len + 1 - k, gap)]

\* the market keys of the odds payload
MarketKeys ==
    {"player_points", "player_rebounds", "player_assists", "player_threes", "player_blocks"}

\* the prop_type fetch_oddsapi_data makes of a market key
OddsapiLabel(market_key) ==
    CASE market_key \in {"player_points"} -> "Points"
      [] market_key \in {"player_rebounds"} -> "Rebounds"
      [] market_key \in {"player_assists"} -> "Assists"
      [] market_key \in {"player_threes"} -> "3PM"
      [] OTHER -> market_key

\* the stat_type values of the projections payload
StatTypes == {"Points", "Pts+Rebs+Asts", "3-PT Made", "PTS", "3PM"}

\* stat_type.replace("_", " ").title(): every word starts with a capital and
\* goes on in small letters
TitleCased(stat_type) ==
    CASE stat_type = "Points" -> "Points"
      [] stat_type = "Pts+Rebs+Asts" -> "Pts+Rebs+Asts"
      [] stat_type = "3-PT Made" -> "3-Pt Made"
      [] stat_type = "PTS" -> "Pts"
      [] stat_type = "3PM" -> "3Pm"
      [] OTHER -> stat_type

\* the keys of col_map
ColMapKeys == {"PTS", "REB", "AST", "PRA", "3PM"}

\* the prop_type labels build_recent_features is called with
PropLabels ==
    ColMapKeys \cup { OddsapiLabel(k) : k \in MarketKeys }
               \cup { TitleCased(s) : s \in StatTypes }

\* a call of build_recent_features for player A, whose log has up to MaxGames
\* games
CallBuildRecentFeatures ==
    /\ ~rf.called
    /\ \E len \in 0..MaxGames, gap \in GameGaps, prop_type \in PropLabels :
       \E log \in { SeasonLog(len, gap) } :
          rf' = [called |-> TRUE, prop_type |-> prop_type, log |-> log,
                 f |-> BuildRecentFeatures("A", prop_type,
                          [pl \in Players |-> IF pl = "A" THEN log ELSE <<>>])]
    /\ UNCHANGED <<adapterVars, fd, app, mdl, featureVars, statsVars, sessionVars, parse>>

-----------------------------------------------------------------------------
(* The feature builders and predict_props as entry points *)

\* a call of prepare_training_data on a log of up to MaxLogLen games
CallPrepareTrainingData ==
    /\ fb.op = "none"
    /\ \E len \in 0..MaxLogLen, target \in {"PTS", "PRA"} :
       \E hole \in 0..len :
       \E p \in { PrepareTrainingData(GameLog(len, hole), target) } :
           /\ fb' = [op |-> "prepare_training_data", len |-> len, hole |-> hole,
                     target |-> target, found |-> TRUE, apiOK |-> TRUE,
                     raised |-> p.raised, rows |-> p.X]
           /\ UNCHANGED <<adapterVars, fd, app, mdl, pm, modelFiles, statsVars, sessionVars, helperVars>>

\* a call of get_recent_logs for a player with a log of up to MaxLogLen games
CallGetRecentLogs ==
    /\ fb.op = "none"
    /\ \E len \in 0..MaxLogLen, found \in BOOLEAN, apiOK \in BOOLEAN :
       \E hole \in 0..len :
       \E r \in { GetRecentLogs(found, apiOK, Latest1st(GameLog(len, hole))) } :
           /\ fb' = [op |-> "get_recent_logs", len |-> len, hole |-> hole,
                     target |-> "none", found |-> found, apiOK |-> apiOK,
                     raised |-> r.raised, rows |-> r.rows]
           /\ UNCHANGED <<adapterVars, fd, app, mdl, pm, modelFiles, statsVars, sessionVars, helperVars>>

\* what pm keeps of one predict_props call
NoPredict == [called |-> FALSE, len |-> 0, hole |-> 0, filesBefore |-> {}, rows |-> <<>>]

\* a call of predict_props on a log of up to MaxTrainLen games, complete or
\* with the PTS of the latest game missing; pm keeps the last call and the
\* one before it
CallPredictProps ==
    \E len \in 0..MaxTrainLen :
    \E hole \in {0, len} :
    \E r \in { PredictProps(GameLog(len, hole), modelFiles) } :
        /\ pm' = [last |-> [called |-> TRUE, len |-> len, hole |-> hole,
                            filesBefore |-> modelFiles, rows |-> r.rows],
                  prev |-> pm.last]
        /\ modelFiles' = r.files
        /\ UNCHANGED <<adapterVars, fd, app, mdl, fb, statsVars, sessionVars, helperVars>>

FbIdle ==
    [op |-> "none", len |-> 0, hole |-> 0, target |-> "none", found |-> FALSE,
     apiOK |-> FALSE, raised |-> FALSE, rows |-> <<>>]

FeaturesIdle ==
    /\ fb = FbIdle
    /\ pm = [last |-> NoPredict, prev |-> NoPredict]
    /\ modelFiles = {}

-----------------------------------------------------------------------------
(* The adapters as entry points *)

NoCall == [raised |-> FALSE, df |-> EmptyDF]

CallFetchGamesToday ==
    \E r \in ResponsesOver(GameItems) :
    \E f \in { FetchGamesToday(r, gamesFile) } :
        /\ op' = "fetch_games_today"
        /\ resp' = r
        /\ ret' = [raised |-> f.raised, df |-> f.df]
        /\ gamesFile' = f.file
        /\ prevGames' = gamesFile
        /\ fetchCalls' = 1
        /\ fetched' = f.df
        /\ UNCHANGED <<oddsFile, fd, app, mdl, featureVars, statsVars, sessionVars, helperVars>>

CallLoadGamesSnapshot ==
    \E r \in ResponsesOver(GameItems) :
    \E l \in { LoadGamesSnapshot(r, gamesFile) } :
        /\ op' = "load_games_snapshot"
        /\ resp' = r
        /\ ret' = [raised |-> l.raised, df |-> l.df]
        /\ gamesFile' = l.file
        /\ prevGames' = gamesFile
        /\ fetchCalls' = l.calls
        /\ fetched' = l.fetched
        /\ UNCHANGED <<oddsFile, fd, app, mdl, featureVars, statsVars, sessionVars, helperVars>>

CallFetchOddsapiData ==
    \E r \in ResponsesOver(OddsItems) :
    \E f \in { FetchOddsapiData(r, oddsFile) } :
        /\ op' = "fetch_oddsapi_data"
        /\ resp' = r
        /\ ret' = [raised |-> f.raised, df |-> f.df]
        /\ oddsFile' = f.file
        /\ prevGames' = gamesFile
        /\ fetchCalls' = 0
        /\ fetched' = EmptyDF
        /\ UNCHANGED <<gamesFile, fd, app, mdl, featureVars, statsVars, sessionVars, helperVars>>

CallFetchPrizepicksData ==
    \E r \in ResponsesOver(PrizeItems) :
    \E f \in { FetchPrizepicksData(r, oddsFile) } :
        /\ op' = "fetch_prizepicks_data"
        /\ resp' = r
        /\ ret' = [raised |-> f.raised, df |-> f.df]
        /\ oddsFile' = f.file
        /\ prevGames' = gamesFile
        /\ fetchCalls' = 0
        /\ fetched' = EmptyDF
        /\ UNCHANGED <<gamesFile, fd, app, mdl, featureVars, statsVars, sessionVars, helperVars>>

\* fetch_fanduel_props() with its default arguments, seen as one more
\* adapter call: the answer of the source is whether the driver started and
\* what each landing page does on every attempt
CallFetchFanduelPropsDefault ==
    \E driverOK \in BOOLEAN, pages \in [1..NumUrls -> PageOutcomes] :
    \E f \in { FetchFanduelProps(
                   [driverOK |-> driverOK, quitOK |-> TRUE, m |-> DefaultMaxAttempts,
                    pages |-> [u \in 1..NumUrls |->
                                 [a \in 1..DefaultMaxAttempts |-> pages[u]]]],
                   oddsFile) } :
        /\ (~driverOK => \A u \in 1..NumUrls : pages[u] = "raise")
        /\ op' = "fetch_fanduel_props"
        /\ resp' = [net |-> IF driverOK THEN "ok" ELSE "err", status |-> 200,
                    shape |-> "ok", items |-> pages]
        /\ ret' = [raised |-> f.raised, df |-> f.df]
        /\ oddsFile' = f.file
        /\ prevGames' = gamesFile
        /\ fetchCalls' = 0
        /\ fetched' = EmptyDF
        /\ UNCHANGED <<gamesFile, fd, app, mdl, featureVars, statsVars, sessionVars, helperVars>>

\* nothing has run: the data directory exists, games_today.json is absent or
\* is a file left there by something else, odds_snapshot.json is absent
AdapterInit ==
    /\ gamesFile \in {Missing} \cup ForeignFiles
    /\ oddsFile = Missing
    /\ op = "none"
    /\ resp = ConnErr
    /\ ret = NoCall
    /\ fetchCalls = 0
    /\ fetched = EmptyDF
    /\ prevGames = gamesFile

FdIdle ==
    [called |-> FALSE,
     in |-> [driverOK |-> FALSE, quitOK |-> TRUE, m |-> 1,
             pages |-> [u \in 1..NumUrls |-> [a \in 1..1 |-> "raise"]]],
     raised |-> FALSE, df |-> EmptyDF, loads |-> <<>>, sleeps |-> 0, quits |-> 0,
     scraped |-> <<>>, prevOdds |-> Missing, escaped |-> "none"]
AppIdle ==
    [ran |-> FALSE,
     in |-> [driverOK |-> FALSE, page |-> "raise", games |-> ConnErr, odds |-> ConnErr],
     fanduel_df |-> EmptyDF, games_df |-> EmptyDF, odds_game_df |-> EmptyDF,
     scraper_error |-> FALSE, invoked |-> <<>>, input |-> EmptyDF, modelCalled |-> FALSE,
     stages |-> [props |-> "notrun", games |-> "notrun", odds |-> "notrun", model |-> "notrun"],
     uncaught |-> FALSE, prevOdds |-> Missing]
MdlIdle ==
    [called |-> FALSE, df |-> EmptyDF, has |-> {}, preds |-> <<>>,
     raised |-> FALSE, rows |-> <<>>, features |-> <<>>]

Init ==
    /\ AdapterInit
    /\ fd = FdIdle
    /\ app = AppIdle
    /\ mdl = MdlIdle
    /\ FeaturesIdle
    /\ StatsIdle
    /\ SessionIdle /\ HelpersIdle

Next ==
    \/ CallFetchGamesToday
    \/ CallLoadGamesSnapshot
    \/ CallFetchOddsapiData
    \/ CallFetchPrizepicksData

Spec == Init /\ [][Next]_vars

-----------------------------------------------------------------------------
(* One call of the scraper; odds_snapshot.json is absent or as an earlier *)
(* run of fetch_oddsapi_data left it                                      *)

FanduelInit ==
    /\ gamesFile = Missing
    /\ oddsFile \in {Missing, FetchOddsapiData(OkResp(<<"good">>), Missing).file}
    /\ op = "none"
    /\ resp = ConnErr
    /\ ret = NoCall
    /\ fetchCalls = 0
    /\ fetched = EmptyDF
    /\ prevGames = Missing
    /\ fd = FdIdle
    /\ app = AppIdle
    /\ mdl = MdlIdle
    /\ FeaturesIdle
    /\ StatsIdle
    /\ SessionIdle /\ HelpersIdle

FanduelNext == CallFetchFanduelProps

SpecFanduel == FanduelInit /\ [][FanduelNext]_vars

-----------------------------------------------------------------------------
(* The refresh cycle of app.py; odds_snapshot.json is as an earlier run of *)
(* fetch_oddsapi_data or fetch_prizepicks_data left it                     *)

AppInit ==
    /\ gamesFile = Missing
    /\ oddsFile \in {Missing, FetchOddsapiData(OkResp(<<"good">>), Missing).file,
                     FetchPrizepicksData(OkResp(<<"good">>), Missing).file}
    /\ op = "none"
    /\ resp = ConnErr
    /\ ret = NoCall
    /\ fetchCalls = 0
    /\ fetched = EmptyDF
    /\ prevGames = Missing
    /\ fd = FdIdle
    /\ app = AppIdle
    /\ mdl = MdlIdle
    /\ FeaturesIdle
    /\ StatsIdle
    /\ SessionIdle /\ HelpersIdle

AppNext == AppRun

SpecApp == AppInit /\ [][AppNext]_vars

-----------------------------------------------------------------------------
(* One call of run_model_predictions *)

ModelInit ==
    /\ gamesFile = Missing
    /\ oddsFile = Missing
    /\ op = "none"
    /\ resp = ConnErr
    /\ ret = NoCall
    /\ fetchCalls = 0
    /\ fetched = EmptyDF
    /\ prevGames = Missing
    /\ fd = FdIdle
    /\ app = AppIdle
    /\ mdl = MdlIdle
    /\ FeaturesIdle
    /\ StatsIdle
    /\ SessionIdle /\ HelpersIdle

ModelNext == CallRunModelPredictions

SpecModel == ModelInit /\ [][ModelNext]_vars

-----------------------------------------------------------------------------
(* Nothing of the adapters, the scraper, the script or the edge model ran *)

PipelineIdle ==
    /\ gamesFile = Missing
    /\ oddsFile = Missing
    /\ op = "none"
    /\ resp = ConnErr
    /\ ret = NoCall
    /\ fetchCalls = 0
    /\ fetched = EmptyDF
    /\ prevGames = Missing
    /\ fd = FdIdle
    /\ app = AppIdle
    /\ mdl = MdlIdle

-----------------------------------------------------------------------------
(* The fetches that write a snapshot, in any order; no snapshot at first *)

SnapshotInit ==
    /\ gamesFile = Missing
    /\ oddsFile = Missing
    /\ op = "none"
    /\ resp = ConnErr
    /\ ret = NoCall
    /\ fetchCalls = 0
    /\ fetched = EmptyDF
    /\ prevGames = Missing
    /\ fd = FdIdle
    /\ app = AppIdle
    /\ mdl = MdlIdle
    /\ FeaturesIdle
    /\ StatsIdle
    /\ SessionIdle /\ HelpersIdle

SnapshotNext ==
    \/ CallFetchGamesToday
    \/ CallFetchOddsapiData
    \/ CallFetchFanduelPropsDefault

SpecSnapshot == SnapshotInit /\ [][SnapshotNext]_vars

-----------------------------------------------------------------------------
(* One call of a feature builder *)

FeaturesInit == PipelineIdle /\ FeaturesIdle /\ StatsIdle /\ SessionIdle /\ HelpersIdle

FeaturesNext == CallPrepareTrainingData \/ CallGetRecentLogs

SpecFeatures == FeaturesInit /\ [][FeaturesNext]_vars

-----------------------------------------------------------------------------
(* Calls of predict_props, the model directory holding no saved model at *)
(* first                                                                  *)

PropModelInit == PipelineIdle /\ FeaturesIdle /\ StatsIdle /\ SessionIdle /\ HelpersIdle

PropModelNext == CallPredictProps

SpecPropModel == PropModelInit /\ [][PropModelNext]_vars

-----------------------------------------------------------------------------
(* Calls of get_player_stats_summary as time passes; the cache file is   *)
(* absent at first or is a file the function cannot read                 *)

StatsInit ==
    /\ PipelineIdle
    /\ FeaturesIdle
    /\ ps = PsIdle
    /\ cacheFile \in {CacheMissing} \cup ForeignCaches
    /\ SessionIdle /\ HelpersIdle

StatsNext == CallGetPlayerStatsSummary \/ Elapse

SpecStats == StatsInit /\ [][StatsNext]_vars

-----------------------------------------------------------------------------
(* One call of the XHR scraper; odds_snapshot.json is absent or as an     *)
(* earlier run of fetch_oddsapi_data left it                               *)

\* fetch_fanduel_props_xhr(), seen as one more adapter call: the answer of
\* the source is what each endpoint does
CallFetchFanduelPropsXhr ==
    \E answers \in [1..NumXhrUrls -> XhrAnswers] :
    \E f \in { FetchFanduelPropsXhr(answers, oddsFile) } :
        /\ op = "none"
        /\ op' = "fetch_fanduel_props_xhr"
        /\ resp' = [net |-> "ok", status |-> 200, shape |-> "ok", items |-> answers]
        /\ ret' = [raised |-> f.raised, df |-> f.df]
        /\ oddsFile' = f.file
        /\ prevGames' = gamesFile
        /\ fetchCalls' = 0
        /\ fetched' = EmptyDF
        /\ UNCHANGED <<gamesFile, fd, app, mdl, featureVars, statsVars, sessionVars, helperVars>>

XhrInit ==
    /\ gamesFile = Missing
    /\ oddsFile \in {Missing, FetchOddsapiData(OkResp(<<"good">>), Missing).file}
    /\ op = "none"
    /\ resp = ConnErr
    /\ ret = NoCall
    /\ fetchCalls = 0
    /\ fetched = EmptyDF
    /\ prevGames = Missing
    /\ fd = FdIdle
    /\ app = AppIdle
    /\ mdl = MdlIdle
    /\ FeaturesIdle
    /\ StatsIdle
    /\ SessionIdle /\ HelpersIdle

XhrNext == CallFetchFanduelPropsXhr

SpecXhr == XhrInit /\ [][XhrNext]_vars

-----------------------------------------------------------------------------
(* A session of app.py: reruns, pauses and presses of Refresh Data, from a *)
(* server that has just started                                            *)

SessionInit ==
    /\ PipelineIdle
    /\ FeaturesIdle
    /\ StatsIdle
    /\ SessionIdle /\ HelpersIdle

SessionNext == AppRerun \/ RefreshData \/ SessionWait

SpecSession == SessionInit /\ [][SessionNext]_vars

-----------------------------------------------------------------------------
(* One call of _parse_props_from_html *)

ParseInit ==
    /\ PipelineIdle
    /\ FeaturesIdle
    /\ StatsIdle
    /\ SessionIdle
    /\ HelpersIdle

ParseNext == CallParsePropsFromHtml

SpecParse == ParseInit /\ [][ParseNext]_vars

-----------------------------------------------------------------------------
(* One call of build_recent_features *)

RecentInit ==
    /\ PipelineIdle
    /\ FeaturesIdle
    /\ StatsIdle
    /\ SessionIdle
    /\ HelpersIdle

RecentNext == CallBuildRecentFeatures

SpecRecent == RecentInit /\ [][RecentNext]_vars

-----------------------------------------------------------------------------
(* Claims about the JSON-API adapters and the games snapshot *)

JsonAdapters == {"fetch_games_today", "fetch_oddsapi_data", "fetch_prizepicks_data"}

\* the payload of the last call holds an item of one of these kinds
HasItem(kinds) == \E i \in 1..Len(resp.items) : resp.items[i] \in kinds

\* the ids of the rows handed back by the last call
ReturnedIds == { ret.df.rows[k].id : k \in 1..Len(ret.df.rows) }

\* C1 as stated: a JSON-API adapter never raises, and on a connectivity
\* error, a non-200 status or a malformed payload (a wrong container or any
\* malformed item) it returns an empty record set.
C1_AsStated ==
    op \in JsonAdapters =>
        /\ ~ret.raised
        /\ (\/ resp.net = "err"
            \/ resp.status # 200
            \/ resp.shape = "bad"
            \/ HasItem({"bad", "badOutcome", "badGame", "badProj"}))
           => IsEmpty(ret.df)

\* C1 as amended: a JSON-API adapter never raises; on a connectivity error, a
\* non-200 status, a wrong container or an item malformed outside the
\* per-item try (any malformed game of fetch_games_today, a malformed
\* game/bookmaker/market of fetch_oddsapi_data) it returns an empty record
\* set; otherwise it returns exactly the rows of the items its loop can
\* process (those lacking a name or a stat type get the default value), an
\* individually malformed outcome or projection being skipped.
C1_AdaptersAbsorbFailures ==
    op \in JsonAdapters =>
        /\ ~ret.raised
        /\ IF \/ resp.net = "err"
              \/ resp.status # 200
              \/ resp.shape = "bad"
              \/ HasItem({"bad", "badGame"})
           THEN IsEmpty(ret.df)
           ELSE ReturnedIds = { i \in 1..Len(resp.items) :
                                   resp.items[i] \in {"good", "noName", "noPlayerStat"} }

\* C1's case: fetch_oddsapi_data met a malformed outcome beside a good one
C1_Witness ==
    /\ op = "fetch_oddsapi_data"
    /\ HasItem({"badOutcome"})
    /\ Len(ret.df.rows) = 1
    /\ ~ret.raised

\* C4: load_games_snapshot on a missing, zero-byte or under-10-byte snapshot
\* calls fetch_games_today exactly once, returns that call's result (the
\* games of a fully well-formed answer, nothing otherwise) and never raises.
C4_LoadMissingFetchesOnce ==
    (op = "load_games_snapshot" /\ (~prevGames.exists \/ prevGames.size < 10)) =>
        /\ fetchCalls = 1
        /\ ret.df = fetched
        /\ ~ret.raised
        /\ Len(ret.df.rows) =
              IF resp.net = "ok" /\ resp.status = 200 /\ resp.shape = "ok" /\ ~HasItem({"bad"})
              THEN Len(resp.items) ELSE 0

\* C4's case: no snapshot file, and the one fetch brought games back
C4_Witness ==
    /\ op = "load_games_snapshot"
    /\ ~prevGames.exists
    /\ fetchCalls = 1
    /\ Len(ret.df.rows) = 2

\* C5: on a snapshot of at least 10 bytes load_games_snapshot calls
\* fetch_games_today exactly once when the file does not parse, does not
\* make a table or parses to zero records, and not at all when it parses to
\* at least one record, returning the stored records and leaving the file as
\* it was; it never raises.
C5_LoadFailsOpen ==
    (op = "load_games_snapshot" /\ prevGames.exists /\ prevGames.size >= 10) =>
        /\ ~ret.raised
        /\ (prevGames.json \in {"invalid", "scalar"} \/ prevGames.recs = <<>>)
              => fetchCalls = 1
        /\ (prevGames.json = "records" /\ prevGames.recs # <<>>)
              => /\ fetchCalls = 0
                 /\ ret.df.rows = prevGames.recs
                 /\ gamesFile = prevGames

\* C5's cases: a stored snapshot returned without a fetch, and a padded
\* empty array answered by one fetch
C5_Witness ==
    /\ op = "load_games_snapshot"
    /\ prevGames.json = "records"
    /\ Len(prevGames.recs) = 2
    /\ fetchCalls = 0
    /\ ret.df.rows = prevGames.recs

-----------------------------------------------------------------------------
(* Claims about the scraper *)

\* C2 as stated: whenever the driver was created, fetch_fanduel_props returns
\* normally and has written odds_snapshot.json as an envelope whose count is
\* the number of records returned and whose records are those returned.
C2_AsStated ==
    (fd.called /\ fd.in.driverOK) =>
        /\ ~fd.raised
        /\ oddsFile.json = "envelope"
        /\ oddsFile.count = Len(fd.df.rows)
        /\ oddsFile.recs = fd.df.rows

\* C2's case: the driver was created and a page parsed to records
C2_Witness ==
    /\ fd.called
    /\ fd.in.driverOK
    /\ fd.loads # <<>>
    /\ fd.in.pages[fd.loads[Len(fd.loads)]][1] = "rows"

-----------------------------------------------------------------------------
(* Claims about the refresh cycle *)

\* C3: whatever the scraper, the schedule API and the odds API do, a run of
\* the script passes every stage without an uncaught exception, and each
\* stage ends in its data (exactly when its frame has rows) or in its own
\* no-data or error message.
C3_CycleNeverFails ==
    app.ran =>
        /\ ~app.uncaught
        /\ app.stages.props = (IF IsEmpty(app.fanduel_df) THEN "warning" ELSE "data")
        /\ app.stages.games = (IF IsEmpty(app.games_df) THEN "warning" ELSE "data")
        /\ app.stages.odds = (IF IsEmpty(app.odds_game_df) THEN "info" ELSE "data")
        /\ app.stages.model \in {"data", "info_no_predictions", "info_no_odds", "error"}

\* C3's case: the scraper raised, the schedule API answered with games and
\* the odds API with a payload of the wrong shape
C3_Witness ==
    /\ app.ran
    /\ app.scraper_error
    /\ app.in.odds.shape = "bad"
    /\ app.stages.games = "data"
    /\ app.stages.odds = "info"
    /\ app.stages.model = "info_no_odds"

\* the place of a fetch in the order of invocation, 0 when it was not invoked
PlaceOf(name) ==
    IF \E k \in 1..Len(app.invoked) : app.invoked[k] = name
    THEN CHOOSE k \in 1..Len(app.invoked) : app.invoked[k] = name
    ELSE 0

C7_AsStated ==
    (app.ran /\ IsEmpty(app.fanduel_df) /\ IsEmpty(app.odds_game_df)) =>
        IF app.prevOdds.exists /\ app.prevOdds.json \in {"records", "envelope"}
           /\ app.prevOdds.recs # <<>>
        THEN app.input.rows = app.prevOdds.recs
        ELSE IsEmpty(app.input)

-----------------------------------------------------------------------------
(* Claims about the edge computation *)

\* the (player, prop_type) pairs of a sequence of rows
KeysOf(rows) == { <<rows[k].player, rows[k].prop_type>> : k \in 1..Len(rows) }

\* no two input rows share a (player, prop_type) pair
DistinctKeys ==
    \A i, j \in 1..Len(mdl.df.rows) :
        i # j => <<mdl.df.rows[i].player, mdl.df.rows[i].prop_type>>
                 # <<mdl.df.rows[j].player, mdl.df.rows[j].prop_type>>

\* the input rows whose player has game logs (both prop types of the model
\* have a stat column)
RowsWithLogs == { k \in 1..Len(mdl.df.rows) : mdl.df.rows[k].player \in mdl.has }

\* C8 as stated: on props with distinct (player, prop_type) pairs
\* run_model_predictions yields one edge row for each pair that has a line
\* and features and none for the others, which do not stand in the way.
C8_AsStated ==
    (mdl.called /\ DistinctKeys) =>
        /\ ~mdl.raised
        /\ Len(mdl.rows) = Cardinality(RowsWithLogs)
        /\ KeysOf(mdl.rows) =
              { <<mdl.df.rows[k].player, mdl.df.rows[k].prop_type>> : k \in RowsWithLogs }

\* C8's case: lines for A:PTS and C:AST, game logs for A alone
C8_Witness ==
    /\ mdl.called
    /\ KeysOf(mdl.df.rows) = {<<"A", "PTS">>, <<"C", "AST">>}
    /\ mdl.has = {"A"}

\* C9 as stated: an edge row whose line is 0 or missing carries neither an
\* infinite nor an undefined edge_pct.
C9_AsStated ==
    mdl.called =>
        \A k \in 1..Len(mdl.rows) :
            (mdl.rows[k].line.t = "nan" \/ mdl.rows[k].line.v = 0)
                => mdl.rows[k].edge_pct.t \notin {"inf", "nan"}

\* C9's case: an edge row was computed on a line of 0
C9_Witness ==
    /\ mdl.called
    /\ ~mdl.raised
    /\ \E k \in 1..Len(mdl.rows) : mdl.rows[k].line = Num(0)

\* the distance of two integers
Dist(a, b) == IF a >= b THEN a - b ELSE b - a

\* C10: on a positive line l and a projection p, edge_pct is
\* |p - l| / l * 100 to the nearest hundredth, expected_value_over is
\* 1.5 * (p - l) and expected_value_under 1.5 * (l - p); p = 27.0 and
\* l = 25.5 give 5.88, 2.25 and -2.25.
C10_EdgeFormula ==
    mdl.called =>
        \A k \in 1..Len(mdl.rows) :
            LET row == mdl.rows[k]
                p == row.model_projection
                l == row.line.v
            IN  (row.line.t = "num" /\ l > 0) =>
                    /\ row.edge_pct.t = "num"
                    /\ 2 * Dist(row.edge_pct.v * l, Dist(p, l) * 10000) <= l
                    /\ row.expected_value_over = Num(15 * (p - l))
                    /\ row.expected_value_under = Num(15 * (l - p))
                    /\ (p = 270 /\ l = 255) =>
                           /\ row.edge_pct = Num(588)
                           /\ row.expected_value_over = Num(225)
                           /\ row.expected_value_under = Num(-225)

\* C10's cases: projection 27.0 on line 25.5, and a projection below its line
C10_Witness ==
    /\ mdl.called
    /\ \E k \in 1..Len(mdl.rows) :
          /\ mdl.rows[k].model_projection = 270
          /\ mdl.rows[k].line = Num(255)
          /\ mdl.rows[k].edge_pct = Num(588)

-----------------------------------------------------------------------------
(* Claims about the rolling features *)

\* n, or 0 when n is negative
Max0(n) == IF n > 0 THEN n ELSE 0

\* the smaller of two integers
Min2(a, b) == IF a <= b THEN a ELSE b

\* the rows of the last feature-builder call whose short-window and
\* long-window PTS averages are defined
DefinedShort == { k \in 1..Len(fb.rows) : fb.rows[k].PTS_L5.t = "num" }
DefinedLong == { k \in 1..Len(fb.rows) : fb.rows[k].PTS_L10.t = "num" }

-----------------------------------------------------------------------------
(* Claims about the records of the props adapters *)

PropsAdapters == {"fetch_oddsapi_data", "fetch_prizepicks_data"}

\* C12 as stated: every row a props adapter returns names a player and a
\* stat category, neither empty nor a placeholder, and an item of the payload
\* that lacks either is left out of the result.
C12_AsStated ==
    op \in PropsAdapters =>
        /\ \A k \in 1..Len(ret.df.rows) :
              /\ ret.df.rows[k].player \notin {"", "Unknown Player"}
              /\ ret.df.rows[k].prop_type \notin {"", "UNKNOWN"}
        /\ \A i \in 1..Len(resp.items) :
              resp.items[i] \in {"noName", "noPlayerStat"} => i \notin ReturnedIds

\* C12's case: the odds API sent an outcome without a name
C12_Witness ==
    /\ op = "fetch_oddsapi_data"
    /\ resp.items = <<"noName">>
    /\ ~IsEmpty(ret.df)

\* C13 as stated: every record a props adapter has made for its caller (the
\* records fetch_fanduel_props scraped for its frame) carries a numeric
\* line, never a text token.
C13_AsStated ==
    fd.called =>
        /\ \A k \in 1..Len(fd.scraped) : fd.scraped[k].line.t = "num"
        /\ \A k \in 1..Len(fd.df.rows) : fd.df.rows[k].line.t = "num"

\* C13's case: the second landing page parsed to a record
C13_Witness ==
    /\ fd.called
    /\ fd.loads = <<1, 1, 2>>
    /\ Len(fd.scraped) = 1

-----------------------------------------------------------------------------
(* Claims about get_player_stats_summary *)

\* the number of the first request of the last call that would deliver, 0
\* when none would
FirstOk ==
    IF \E j \in 1..3 : ps.outcomes[j] = "ok"
    THEN CHOOSE j \in 1..3 : ps.outcomes[j] = "ok" /\ \A i \in 1..(j - 1) : ps.outcomes[i] # "ok"
    ELSE 0

\* the cache file as the last call found it reads as a table
CacheReadable == ps.cacheBefore.exists /\ ps.cacheBefore.json \in {"records", "emptylist"}

\* C14: a call makes at most 3 requests; it stops at the first that
\* delivers, having written the cache file and returning the delivered log;
\* every request that failed is followed by one sleep, of 3 s after a
\* timeout or connection error and of 1 s after any other error.
C14_BoundedRetries ==
    ps.called =>
        /\ ps.calls <= 3
        /\ ps.calls = 0 => ps.sleeps = <<>>
        /\ ps.calls > 0 =>
              /\ IF FirstOk # 0
                 THEN /\ ps.calls = FirstOk
                      /\ Len(ps.sleeps) = FirstOk - 1
                      /\ ps.source = "api"
                      /\ ps.df.rows = ps.apiLog
                      /\ ps.cacheAfter.exists
                      /\ ps.cacheAfter.age = 0
                      /\ ps.cacheAfter.recs = ps.apiLog
                 ELSE /\ ps.calls = 3
                      /\ Len(ps.sleeps) = 3
                      /\ ps.cacheAfter = ps.cacheBefore
              /\ \A k \in 1..Len(ps.sleeps) :
                    ps.sleeps[k] = IF ps.outcomes[k] = "timeout" THEN 3 ELSE 1

\* C14's case: a timeout, then another error, then a delivered log
C14_Witness ==
    /\ ps.called
    /\ ps.outcomes = <<"timeout", "error", "ok">>
    /\ ps.calls = 3
    /\ ps.sleeps = <<3, 1>>
    /\ ps.source = "api"

\* C19: a cache file that exists, is less than 43200 s old and reads is
\* returned with no request made and is left as it was; one that is 43200 s
\* old or older is returned only after the requests were tried.
C19_FreshCacheNoFetch ==
    (ps.called /\ ps.known /\ ps.cacheBefore.exists) =>
        /\ (ps.cacheBefore.age < 43200 /\ CacheReadable) =>
              /\ ps.calls = 0
              /\ ps.source = "fresh"
              /\ ps.df.rows = ps.cacheBefore.recs
              /\ ps.cacheAfter = ps.cacheBefore
        /\ ps.cacheBefore.age >= 43200 =>
              /\ ps.calls >= 1
              /\ ps.source # "fresh"
              /\ ps.source = "stale" => ps.calls = 3

\* C19's case: a cache file of two games, 43199 s old, returned as it is
C19_Witness ==
    /\ ps.called /\ ps.known
    /\ ps.cacheBefore.age = 43199
    /\ Len(ps.cacheBefore.recs) = 2
    /\ ps.calls = 0
    /\ ps.df.rows = ps.cacheBefore.recs

\* C20: no call raises; when all three requests failed the call returns the
\* contents of the cache file, whatever its age, if the file exists and
\* reads, and an empty frame otherwise.
C20_StaleFallback ==
    ps.called =>
        /\ ~ps.raised
        /\ (ps.calls = 3 /\ FirstOk = 0) =>
              IF CacheReadable
              THEN /\ ps.source = "stale"
                   /\ ps.df.rows = ps.cacheBefore.recs
                   /\ ps.cacheAfter = ps.cacheBefore
              ELSE IsEmpty(ps.df)

\* C20's case: three failed requests answered from a cache file older than
\* twelve hours
C20_Witness ==
    /\ ps.called
    /\ ps.calls = 3 /\ FirstOk = 0
    /\ ps.cacheBefore.age = 43201
    /\ Len(ps.cacheBefore.recs) = 2
    /\ ps.df.rows = ps.cacheBefore.recs

-----------------------------------------------------------------------------
(* Claims about the scraping loop and the snapshots *)

\* how often the last fetch_fanduel_props call loaded landing page u
LoadsOf(u) == Cardinality({ k \in 1..Len(fd.loads) : fd.loads[k] = u })

\* C15: a call of fetch_fanduel_props(max_attempts = m) loads each of the 3
\* landing pages at most m times, in order, so at most 3 * m pages in all;
\* every load that raised or parsed no record is followed by one sleep, and
\* the loop gives up only when every page has had its m attempts.
C15_ScrapeLoopBounded ==
    fd.called =>
        /\ \A u \in 1..3 : LoadsOf(u) <= fd.in.m
        /\ Len(fd.loads) <= 3 * fd.in.m
        /\ \A k \in 1..(Len(fd.loads) - 1) : fd.loads[k] <= fd.loads[k + 1]
        /\ fd.sleeps = IF fd.scraped # <<>> THEN Len(fd.loads) - 1 ELSE Len(fd.loads)
        /\ (fd.in.driverOK /\ fd.scraped = <<>>) => \A u \in 1..3 : LoadsOf(u) = fd.in.m

\* C15's case: two attempts on each of the three pages, none with a record
C15_Witness ==
    /\ fd.called
    /\ fd.in.driverOK
    /\ fd.in.m = 2
    /\ fd.loads = <<1, 1, 2, 2, 3, 3>>
    /\ fd.sleeps = 6

-----------------------------------------------------------------------------
(* Claims about predict_props *)

\* the stat categories of a sequence of projection rows
CatsOf(rows) == { rows[k].prop_type : k \in 1..Len(rows) }

\* C17 as stated: on a complete game log with enough rows to train (six
\* games, which leave two training rows, or more) predict_props returns
\* exactly one projection row for each of PTS, REB, AST, PRA and FG3M.
C17_AsStated ==
    (pm.last.called /\ pm.last.hole = 0 /\ pm.last.len >= 6) =>
        /\ Len(pm.last.rows) = 5
        /\ CatsOf(pm.last.rows) = {"PTS", "REB", "AST", "PRA", "FG3M"}

\* C17's case: a complete log of eight games, no model saved yet
C17_Witness ==
    /\ pm.last.called
    /\ pm.last.len = 8
    /\ pm.last.hole = 0
    /\ pm.last.filesBefore = {}

\* C18 as stated: a predict_props call on a model directory without saved
\* models and the call that follows it on the same log return projections
\* for the same stat categories.
C18_AsStated ==
    (/\ pm.last.called
     /\ pm.prev.called
     /\ pm.prev.filesBefore = {}
     /\ pm.last.len = pm.prev.len
     /\ pm.last.hole = pm.prev.hole) =>
        CatsOf(pm.last.rows) = CatsOf(pm.prev.rows)

\* C18's case: two calls in a row on the same complete log of eight games,
\* the first on an empty model directory
C18_Witness ==
    /\ pm.last.called
    /\ pm.prev.called
    /\ pm.prev.filesBefore = {}
    /\ pm.prev.len = 8 /\ pm.prev.hole = 0
    /\ pm.last.len = 8 /\ pm.last.hole = 0

-----------------------------------------------------------------------------
(* Claims about the XHR scraper *)

\* C21 as stated: fetch_fanduel_props_xhr always returns normally, with a
\* record set of the columns player, prop_type, line, odds, team, game and
\* bookmaker, after writing a snapshot envelope whose count is the number of
\* records returned, also when no endpoint yields a record.
C21_AsStated ==
    op = "fetch_fanduel_props_xhr" =>
        /\ ~ret.raised
        /\ ret.df.cols = "xhr"
        /\ oddsFile.json = "envelope"
        /\ oddsFile.fmt = "xhr"
        /\ oddsFile.count = Len(ret.df.rows)

\* C21's case: both endpoints answered 200 with parsable bodies naming
\* markets, the call raised and odds_snapshot.json is still absent
C21_Witness ==
    /\ op = "fetch_fanduel_props_xhr"
    /\ \A u \in 1..NumXhrUrls :
          /\ resp.items[u].kind = "ok"
          /\ \E i \in 1..Len(resp.items[u].chunks) : resp.items[u].chunks[i].named
    /\ ret.raised
    /\ ~oddsFile.exists
-----------------------------------------------------------------------------
(* Claims about the pages and the driver of the scraper *)

\* C24: the records a call gathered all come from one landing page, the
\* first in order on which an attempt parsed records; that attempt is the
\* last page load of the call, so no later page is opened and the page is
\* not loaded again.  A call that gathered nothing met no such attempt.
C24_SingleUrlRecords ==
    (fd.called /\ fd.in.driverOK) =>
        IF fd.scraped # <<>>
        THEN LET u == fd.scraped[1].url
                 n == LoadsOf(u)
             IN  /\ \A k \in 1..Len(fd.scraped) : fd.scraped[k].url = u
                 /\ fd.loads[Len(fd.loads)] = u
                 /\ \A k \in 1..Len(fd.loads) : fd.loads[k] <= u
                 /\ fd.in.pages[u][n] = "rows"
                 /\ \A a \in 1..(n - 1) : fd.in.pages[u][a] # "rows"
                 /\ \A v \in 1..(u - 1) : \A a \in 1..fd.in.m : fd.in.pages[v][a] # "rows"
        ELSE \A v \in 1..NumUrls : \A a \in 1..fd.in.m : fd.in.pages[v][a] # "rows"

\* C24's case: the first page failed twice, the second parsed records at
\* once, the third was never opened
C24_Witness ==
    /\ fd.called
    /\ fd.in.m = 2
    /\ fd.loads = <<1, 1, 2>>
    /\ fd.scraped # <<>>
    /\ fd.scraped[1].url = 2

-----------------------------------------------------------------------------
(* Claims about the model stage of app.py *)

\* C23: in a run the model is invoked exactly when the scraped props or the
\* game odds have rows, on the scraped props when they have rows and on the
\* game odds otherwise; with both empty the stage shows "No odds available"
\* and nothing is handed to the model.
C23_ModelStageGuard ==
    app.ran =>
        /\ app.modelCalled <=> ~(IsEmpty(app.fanduel_df) /\ IsEmpty(app.odds_game_df))
        /\ app.modelCalled =>
              app.input = (IF ~IsEmpty(app.fanduel_df) THEN app.fanduel_df
                           ELSE app.odds_game_df)
        /\ ~app.modelCalled =>
              /\ app.stages.model = "info_no_odds"
              /\ IsEmpty(app.input)

\* C23's cases: a run whose odds request met a non-success status showed
\* "No odds available" without a model call
C23_Witness ==
    /\ app.ran
    /\ app.in.odds = Non200
    /\ IsEmpty(app.fanduel_df)
    /\ IsEmpty(app.odds_game_df)
    /\ ~app.modelCalled
    /\ app.stages.model = "info_no_odds"

-----------------------------------------------------------------------------
(* Claims about the session of app.py *)

\* the frame a run shows for a cached fetch
ShownOf(f, rec) ==
    CASE f = "scrape" -> rec.fanduel_df
      [] f = "games" -> rec.games_df
      [] f = "odds" -> rec.odds_game_df

\* whether a run invoked the fetch of that name
InvokedIn(rec, name) == \E k \in 1..Len(rec.invoked) : rec.invoked[k] = name

\* C22: a rerun that finds a value stored less than 120 s ago (scraper,
\* odds) or 300 s ago (games) does not invoke the underlying fetch and shows
\* the stored frame, the empty frame of a failed scrape included; Refresh
\* Data clears every stored value, and the run it starts invokes the three
\* underlying fetches.
C22_CachedWithinTtl ==
    [][ /\ uiStep' = "run" =>
              \A f \in CachedFetches :
                  (stCache[f].has /\ stCache[f].age < (IF f = "games" THEN 300 ELSE 120))
                     => /\ ~InvokedIn(app', UnderlyingOf(f))
                        /\ ShownOf(f, app') = stCache[f].df
        /\ uiStep' = "refresh" =>
              /\ app'.invoked =
                    <<"fetch_fanduel_props", "fetch_games_today", "oddsapi_game_odds">>
              /\ \A f \in CachedFetches : stCache'[f].has /\ stCache'[f].age = 0
      ]_vars

\* C22's case: a rerun 119 s after a failed scrape and 239 s after a fetch
\* of games invoked nothing and showed the stored frames
C22_Witness ==
    /\ uiStep = "run"
    /\ app.invoked = <<>>
    /\ stCache["scrape"].age = 119
    /\ stCache["scrape"].error
    /\ IsEmpty(app.fanduel_df)
    /\ stCache["games"].age = 239
    /\ ~IsEmpty(app.games_df)
-----------------------------------------------------------------------------
(* Claims about the clean-up of the parsed records *)

\* the positions of the records list that hold the first record of their
\* (player, prop_type, text of line, text of odds)
FirstOfKey(records) ==
    { i \in 1..Len(records) :
        \A j \in 1..(i - 1) :
            ~ /\ records[j].player = records[i].player
              /\ records[j].prop_type = records[i].prop_type
              /\ CellText(records[j].line) = CellText(records[i].line)
              /\ CellText(records[j].odds) = CellText(records[i].odds) }

\* C26: the list _parse_props_from_html returns holds no two records with the
\* same (player, prop_type, text of line, text of odds); of the parsed records
\* with one key it holds the first, and the kept records are in parse order.
C26_FirstOfEachKey ==
    (parse.called /\ ~parse.raised) =>
        LET firsts == FirstOfKey(parse.records)
            cleaned == parse.cleaned
        IN  /\ \A a, b \in 1..Len(cleaned) :
                  ( /\ cleaned[a].player = cleaned[b].player
                    /\ cleaned[a].prop_type = cleaned[b].prop_type
                    /\ CellText(cleaned[a].line) = CellText(cleaned[b].line)
                    /\ CellText(cleaned[a].odds) = CellText(cleaned[b].odds) ) => a = b
            /\ Len(cleaned) = Cardinality(firsts)
            /\ \A k \in 1..Len(cleaned) :
                  \E i \in firsts :
                      /\ Cardinality({ j \in firsts : j < i }) = k - 1
                      /\ cleaned[k] = parse.records[i]

\* C26's case: a record of a market node with the text line "21.5" and a
\* record of a script with the float line 21.5 share a key; the first is kept,
\* and so is a later record with another key
C26_Witness ==
    /\ parse.called /\ ~parse.raised
    /\ Len(parse.records) = 3 /\ Len(parse.cleaned) = 2
    /\ parse.records[1].line = TextCell("21.5")
    /\ parse.records[2].line = FloatCell(215)
    /\ parse.records[2].odds = parse.records[1].odds
    /\ parse.cleaned[1] = parse.records[1]
    /\ parse.cleaned[2] = parse.records[3]
-----------------------------------------------------------------------------
(* Claims about the projections of run_model_predictions *)

\* the rows of a sequence that carry the (player, prop_type) of r
SameKey(rows, r) ==
    { k \in 1..Len(rows) :
        rows[k].player = r.player /\ rows[k].prop_type = r.prop_type }

\* every returned row carries the prediction made from the feature row of its
\* own (player, prop_type)
ProjectionOfOwnFeatures ==
    \A i \in 1..Len(mdl.rows) :
        \E k \in 1..Len(mdl.features) :
            /\ SameKey(mdl.features, mdl.rows[i]) = {k}
            /\ mdl.rows[i].model_projection = mdl.preds[k]

\* C27, as stated: for every prop set whose rows all have features, also one
\* in which two rows share a (player, prop_type), the result has a row for
\* each prop, and its model_projection is the prediction made from the
\* features of that row's (player, prop_type).
C27_AsStated ==
    ( /\ mdl.called
      /\ mdl.df.rows # <<>>
      /\ Len(mdl.features) = Len(mdl.df.rows)
      /\ \A a \in 1..Len(mdl.df.rows) : mdl.df.rows[a].line.t = "num" ) =>
        /\ ~mdl.raised
        /\ Len(mdl.rows) = Len(mdl.df.rows)
        /\ ProjectionOfOwnFeatures

\* C27's failing case: two props of one player and prop_type, both with
\* features: the call raises and no row gets a projection
C27_Witness ==
    /\ mdl.called
    /\ Len(mdl.df.rows) = 2
    /\ Cardinality(SameKey(mdl.df.rows, mdl.df.rows[1])) = 2
    /\ Len(mdl.features) = 2
    /\ mdl.raised
    /\ mdl.rows = <<>>

-----------------------------------------------------------------------------
(* Claims about build_recent_features *)

\* the games of a log that are among the n latest by the calendar
LatestGames(log, n) ==
    { k \in 1..Len(log) :
        Cardinality({ j \in 1..Len(log) : log[j].GAME_DATE > log[k].GAME_DATE }) < n }

RECURSIVE SumAt(_, _, _)
SumAt(log, ks, col) ==
    IF ks = {} THEN 0
    ELSE LET k == CHOOSE x \in ks : TRUE
         IN  StatOf(log[k], col) + SumAt(log, ks \ {k}, col)

\* C28, as stated: the statistics are taken over the n_games latest games of
\* the log by the calendar, games_used is min(n_games, length of the log),
\* and last_game is the stat of the latest game.
C28_AsStated ==
    (rf.called /\ rf.f.ok) =>
        LET col == StatColumn(rf.prop_type)
            latest == LatestGames(rf.log, NGames)
        IN  /\ rf.f.games_used = (IF Len(rf.log) < NGames THEN Len(rf.log) ELSE NGames)
            /\ rf.f.recent_sum = SumAt(rf.log, latest, col)
            /\ \E k \in LatestGames(rf.log, 1) : rf.f.last_game = StatOf(rf.log[k], col)

\* C28's failing case: a game of October and a later one of November; the
\* text "OCT 22, 2024" sorts above "NOV 06, 2024" and last_game is October's
C28_Witness ==
    /\ rf.called /\ rf.f.ok
    /\ rf.prop_type = "PTS"
    /\ Len(rf.log) = 2
    /\ DateText(rf.log[1].GAME_DATE).mon = "NOV"
    /\ DateText(rf.log[2].GAME_DATE).mon = "OCT"
    /\ rf.f.games_used = 2
    /\ rf.f.last_game = rf.log[2].PTS
    /\ rf.f.last_game # rf.log[1].PTS
\* C29: build_recent_features yields a feature only for the prop_type labels
\* PTS, REB, AST, PRA and 3PM (and a player with game logs); for every other
\* label, the Points, Rebounds and Assists of fetch_oddsapi_data and the
\* title-cased names of fetch_prizepicks_data among them, it returns None.
C29_OnlyColMapLabels ==
    rf.called =>
        /\ rf.f.ok <=> (rf.log # <<>> /\ rf.prop_type \in {"PTS", "REB", "AST", "PRA", "3PM"})
        /\ ( \/ rf.prop_type \in {"Points", "Rebounds", "Assists"}
             \/ \E s \in StatTypes : rf.prop_type = TitleCased(s) ) => ~rf.f.ok

\* C29's case: the label Points for a player with game logs
C29_Witness ==
    /\ rf.called
    /\ rf.prop_type = OddsapiLabel("player_points")
    /\ Len(rf.log) = MaxGames
    /\ ~rf.f.ok

====
